---- MODULE Spec2Model ----
(*****************************************************************************)
(* The in-memory comment store of the websocket comment server               *)
(* (services/CommentManager.js), the notification store                      *)
(* (services/NotificationManager.js) and the socket handlers of server.js    *)
(* that drive them.  The handlers are async functions: a handler runs        *)
(* from one await to the next, and there is one action for each such         *)
(* stretch of a handler.  `loop` is the event loop: the events that are      *)
(* dispatched and whose handlers have not started, and the handlers that     *)
(* are suspended at an await, which resume in the order of the microtask     *)
(* queue.  The store methods are async but contain no await, so a call of    *)
(* one runs to its end within the stretch that makes it.  `running` is       *)
(* the store method that is in the middle of its synchronous block, for      *)
(* the specification that follows deleteComment statement by statement.      *)
(* `sockets` is the connections the server has accepted, and `last` the      *)
(* answer emitted last since the loop last took events from the network.     *)
(*                                                                           *)
(* Identifiers: uuidv4() yields a fresh value on every call.  A comment's    *)
(* id is modelled as its position in insertion order (1, 2, ...), a new      *)
(* annotation id as the id of the comment that opens the annotation.  An     *)
(* id that a client sends and that names nothing is BogusId: a client        *)
(* cannot guess a uuid that will be generated later.  A socket's id is the   *)
(* number of its connection.                                                 *)
(*                                                                           *)
(* Users: of a user object, in a handshake or in a request, the model keeps  *)
(* the three fields an id is read from (userId, id, userSnippylyId); each    *)
(* place of the code that derives an id reads them in its own order.         *)
(*                                                                           *)
(* Time: new Date().toISOString() has millisecond resolution, so several     *)
(* handlers may run within one clock value; `now` is that clock and Tick     *)
(* advances it.  A method that reads the clock more than once (for the       *)
(* comment and for each reply in deleteComment, for each comment in          *)
(* updateCommentStatus) may find it advanced from one read to the next.      *)
(*****************************************************************************)
EXTENDS Integers, Sequences, FiniteSets, TLC

VARIABLES comments, threadComments, notifications, now, last, running, sockets, loop

vars == <<comments, threadComments, notifications, now, last, running, sockets, loop>>

----------------------------------------------------------------------------
(* Bounds of the model *)

MaxComments == 1
MaxThread == 3
MaxReacted == 1
MaxCreated == 2
MaxAnnotated == 3
MaxStatused == 2
MaxListed == 3
MaxInItem == 2
MaxNotifications == 2
MaxTime == 2
MaxAnchored == 2
MaxInterleaved == 2
MaxLooped == 3
MaxSockets == 2
MaxOwned == 2
MaxFramed == 2
MaxIdentified == 1

----------------------------------------------------------------------------
(* Values *)

Users == {"u1", "u2"}
NoUser == "nouser"

\* A field that an object does not carry, and the id derived from none.
Undefined == "undefined"

\* A user object, as a handshake and a request carry it: the three fields an
\* id is read from.
UserObject(userId, id, userSnippylyId) ==
    [userId |-> userId, id |-> id, userSnippylyId |-> userSnippylyId]

\* A request that carries no user.
NoObject == [undefined |-> TRUE]

\* a || b
Or(a, b) == IF a # Undefined THEN a ELSE b

ThreadKeys == {<<"post", "t1">>}
Items == {"i1"}
NoItem == "noitem"

Contents == {"hi"}
EmptyContent == ""
MinContentLen == 1
MaxContentLen == 2000
REDACTED == "[Comment deleted]"

DefaultLimit == 50
DefaultOffset == 0
Limits == {1, 2, DefaultLimit}
Offsets == {DefaultOffset, 1}

ReactionTypes == {"like", "heart", "laugh"}

\* The names every object inherits properties under: comment.reactions is a
\* plain object, and comment.reactions[name] is one of these properties and no
\* Map.
InheritedTypes ==
    {"constructor", "__proto__", "hasOwnProperty", "isPrototypeOf", "propertyIsEnumerable",
     "toLocaleString", "toString", "valueOf", "__defineGetter__", "__defineSetter__",
     "__lookupGetter__", "__lookupSetter__"}

\* The reaction types of the requests: addReactionSchema admits any string.
ReactionInputs == ReactionTypes \cup {"constructor"}
StatusOpen == "open"
Statuses == {"resolved"}
NoStatus == "nostatus"

NoId == 0
BogusId == 99
NoAnnotation == 0
BogusAnnotation == 99
NoTime == 0

NotificationTypes == {"mention"}

TypeComment == "comment"
TypeReply == "reply"
NoType == "notype"

Range(s) == {s[i] : i \in DOMAIN s}

----------------------------------------------------------------------------
(* CommentManager *)

\* reactions: {} -- a reaction type with no key and one whose Map is empty both
\* have no reactor (formatReactionsForFrontend leaves out the empty ones), so the
\* object is modelled as the reactor ids (the Map's keys) of every type.
NoReactions == [type \in ReactionTypes |-> {}]

\* The comment record built by createComment: a legacy thread comment.
LegacyComment(id, data, t) ==
    [id |-> id,
     annotationId |-> NoAnnotation,
     itemId |-> NoItem,
     threadId |-> data.threadId,
     threadType |-> data.threadType,
     content |-> data.content,
     type |-> NoType,
     parentId |-> data.parentId,
     isReply |-> FALSE,
     userId |-> data.userId,
     status |-> NoStatus,
     createdAt |-> t,
     updatedAt |-> NoTime,
     isDeleted |-> FALSE,
     reactions |-> NoReactions,
     replies |-> << >>]

\* Mutant of PushReply: the id is pushed twice.
PushReplyTwice(cs, c) ==
    IF c.parentId # NoId /\ c.parentId \in DOMAIN cs
    THEN [cs EXCEPT ![c.parentId].replies = Append(Append(@, c.id), c.id)]
    ELSE cs

\* If the new comment has a parentId that resolves, push its id to the parent's replies.
PushReply(cs, c) ==
    IF c.parentId # NoId /\ c.parentId \in DOMAIN cs
    THEN [cs EXCEPT ![c.parentId].replies = Append(@, c.id)]
    ELSE cs

\* threadComments.get(key).add(id), creating the Set when the key is new.
IndexAdd(tc, key, id) ==
    IF key \in DOMAIN tc
    THEN [tc EXCEPT ![key] = @ \cup {id}]
    ELSE tc @@ (key :> {id})

createComment(cs, tc, data, t) ==
    LET c == LegacyComment(Len(cs) + 1, data, t)
    IN [comments |-> PushReply(Append(cs, c), c),
        threadComments |-> IndexAdd(tc, <<data.threadType, data.threadId>>, c.id),
        comment |-> c.id]

\* Mutants of updateComment: an update that skips the check of the author,
\* and one that makes the edited comment visible again.
updateCommentNoAuth(cs, commentId, newContent, userId, t) ==
    IF commentId \notin DOMAIN cs
    THEN [comments |-> cs, result |-> NoId]
    ELSE [comments |-> [cs EXCEPT ![commentId].content = newContent,
                                  ![commentId].updatedAt = t],
          result |-> commentId]

updateCommentRestores(cs, commentId, newContent, userId, t) ==
    IF commentId \notin DOMAIN cs \/ cs[commentId].userId # userId
    THEN [comments |-> cs, result |-> NoId]
    ELSE [comments |-> [cs EXCEPT ![commentId].content = newContent,
                                  ![commentId].updatedAt = t,
                                  ![commentId].isDeleted = FALSE],
          result |-> commentId]

updateComment(cs, commentId, newContent, userId, t) ==
    IF commentId \notin DOMAIN cs
    THEN [comments |-> cs, result |-> NoId]
    ELSE IF cs[commentId].userId # userId
    THEN [comments |-> cs, result |-> NoId]
    ELSE [comments |-> [cs EXCEPT ![commentId].content = newContent,
                                  ![commentId].updatedAt = t],
          result |-> commentId]

\* Mutant of Redact: the author of the comment is taken out with the content.
RedactAnonymous(c, t) ==
    [c EXCEPT !.isDeleted = TRUE, !.content = REDACTED, !.updatedAt = t, !.userId = NoUser]

Redact(c, t) == [c EXCEPT !.isDeleted = TRUE, !.content = REDACTED, !.updatedAt = t]

\* new Date().toISOString() read n times in a row within one call, the first
\* time at `from`: the clock may reach its next millisecond between two reads
\* and never runs backwards.
Readings(from, n) ==
    {ts \in [1..n -> from..MaxTime] :
        \A k \in 1..n : IF k = 1 THEN ts[k] = from ELSE ts[k - 1] <= ts[k]}

\* Mutant of CascadeReplies: only the first reply is redacted.
CascadeRepliesFirstOnly(cs, replies, ts) ==
    IF replies = << >> \/ Head(replies) \notin DOMAIN cs
    THEN [comments |-> cs, threw |-> replies # << >>]
    ELSE [comments |-> [cs EXCEPT ![Head(replies)] = Redact(@, Head(ts))], threw |-> FALSE]

\* The loop over comment.replies: each entry is looked up and redacted with a
\* reading of the clock of its own, ts[k] for the k-th entry; a missing entry
\* makes the loop throw with the earlier entries already redacted.
RECURSIVE CascadeReplies(_, _, _)
CascadeReplies(cs, replies, ts) ==
    IF replies = << >>
    THEN [comments |-> cs, threw |-> FALSE]
    ELSE IF Head(replies) \notin DOMAIN cs
    THEN [comments |-> cs, threw |-> TRUE]
    ELSE CascadeReplies([cs EXCEPT ![Head(replies)] = Redact(@, Head(ts))],
                        Tail(replies), Tail(ts))

\* Mutants of deleteComment: a cascade that follows replies of replies, and
\* a delete that skips the check of the author.
RECURSIVE RedactTree(_, _, _)
RedactTree(cs, id, t) ==
    LET RECURSIVE Each(_, _)
        Each(acc, replies) ==
            IF replies = << >>
            THEN acc
            ELSE Each(RedactTree(acc, Head(replies), t), Tail(replies))
    IN IF id \notin DOMAIN cs
       THEN cs
       ELSE Each([cs EXCEPT ![id] = Redact(@, t)], cs[id].replies)

deleteCommentDeep(cs, commentId, userId, ts) ==
    IF commentId \notin DOMAIN cs \/ cs[commentId].userId # userId
    THEN [comments |-> cs, result |-> "null"]
    ELSE [comments |-> RedactTree(cs, commentId, Head(ts)), result |-> "store"]

deleteCommentNoAuth(cs, commentId, userId, ts) ==
    IF commentId \notin DOMAIN cs
    THEN [comments |-> cs, result |-> "null"]
    ELSE LET cs1 == [cs EXCEPT ![commentId] = Redact(@, Head(ts))]
             r == CascadeReplies(cs1, cs1[commentId].replies, Tail(ts))
         IN [comments |-> r.comments,
             result |-> IF r.threw THEN "threw" ELSE "store"]

\* ts: the readings of the clock, ts[1] for the comment itself and one more
\* for each of its replies.
deleteComment(cs, commentId, userId, ts) ==
    IF commentId \notin DOMAIN cs
    THEN [comments |-> cs, result |-> "null"]
    ELSE IF cs[commentId].userId # userId
    THEN [comments |-> cs, result |-> "null"]
    ELSE LET cs1 == [cs EXCEPT ![commentId] = Redact(@, Head(ts))]
             r == CascadeReplies(cs1, cs1[commentId].replies, Tail(ts))
         IN [comments |-> r.comments,
             result |-> IF r.threw THEN "threw" ELSE "store"]

\* How many times a deleteComment(commentId, ...) that is not refused reads
\* the clock.
deleteCommentReads(cs, commentId) ==
    IF commentId \in DOMAIN cs THEN 1 + Len(cs[commentId].replies) ELSE 0

\* Array.prototype.sort with (a, b) => new Date(a.createdAt) - new Date(b.createdAt):
\* a stable sort of comment ids, ascending by createdAt.
RECURSIVE SortByCreatedAt(_, _)
SortByCreatedAt(cs, ids) ==
    IF ids = << >>
    THEN << >>
    ELSE LET n == Len(ids)
             x == ids[n]
             sorted == SortByCreatedAt(cs, SubSeq(ids, 1, n - 1))
             k == Cardinality({i \in DOMAIN sorted : cs[sorted[i]].createdAt <= cs[x].createdAt})
         IN SubSeq(sorted, 1, k) \o <<x>> \o SubSeq(sorted, k + 1, Len(sorted))

\* Array.from(set): a Set of comment ids is walked in the order of insertion,
\* which is the order of the ids.
InsertionOrder(cs, ids) == SelectSeq([i \in DOMAIN cs |-> i], LAMBDA i : i \in ids)

\* Array.prototype.slice(from, to) of a sequence, both counted from 0.
Slice(seq, from, to) ==
    SubSeq(seq, from + 1, IF to < Len(seq) THEN to ELSE Len(seq))

\* The visible comments of the thread, ascending by createdAt, cut to
\* [offset, offset + limit): the `comments` array of getCommentsForThread.
ThreadPage(cs, tc, threadId, threadType, limit, offset) ==
    IF <<threadType, threadId>> \notin DOMAIN tc
    THEN << >>
    ELSE LET all == InsertionOrder(cs, tc[<<threadType, threadId>>])
             visible == SelectSeq(all, LAMBDA i : ~cs[i].isDeleted)
         IN Slice(SortByCreatedAt(cs, visible), offset, offset + limit)

\* buildCommentTree: the comment and, as replies, the trees of the comments of
\* the page whose parentId is its id, in the order of the page.
RECURSIVE buildCommentTree(_, _, _)
buildCommentTree(cs, page, id) ==
    LET replies == SelectSeq(page, LAMBDA r : cs[r].parentId # NoId /\ cs[r].parentId = id)
    IN [id |-> id,
        replies |-> [k \in DOMAIN replies |-> buildCommentTree(cs, page, replies[k])]]

\* Mutant of getCommentsForThread: the tree follows the replies lists that
\* creation maintains instead of grouping the page by parentId.
RECURSIVE TreeByReplies(_, _)
TreeByReplies(cs, id) ==
    [id |-> id,
     replies |-> [k \in DOMAIN cs[id].replies |-> TreeByReplies(cs, cs[id].replies[k])]]

getCommentsForThreadByReplies(cs, tc, threadId, threadType, limit, offset) ==
    LET page == ThreadPage(cs, tc, threadId, threadType, limit, offset)
        topLevelComments == SelectSeq(page, LAMBDA i : cs[i].parentId = NoId)
    IN [k \in DOMAIN topLevelComments |-> TreeByReplies(cs, topLevelComments[k])]

getCommentsForThread(cs, tc, threadId, threadType, limit, offset) ==
    LET page == ThreadPage(cs, tc, threadId, threadType, limit, offset)
        topLevelComments == SelectSeq(page, LAMBDA i : cs[i].parentId = NoId)
    IN [k \in DOMAIN topLevelComments |-> buildCommentTree(cs, page, topLevelComments[k])]

\* new Date(c.updatedAt || c.createdAt).getTime()
Activity(c) == IF c.updatedAt # NoTime THEN c.updatedAt ELSE c.createdAt

Max(S) == CHOOSE x \in S : \A y \in S : y <= x

\* Array.prototype.sort with (a, b) => b.lastActivity - a.lastActivity: a stable
\* sort of threads, descending by lastActivity.
RECURSIVE SortByLastActivity(_)
SortByLastActivity(threads) ==
    IF threads = << >>
    THEN << >>
    ELSE LET n == Len(threads)
             x == threads[n]
             sorted == SortByLastActivity(SubSeq(threads, 1, n - 1))
             k == Cardinality({i \in DOMAIN sorted : sorted[i].lastActivity >= x.lastActivity})
         IN SubSeq(sorted, 1, k) \o <<x>> \o SubSeq(sorted, k + 1, Len(sorted))

\* comment.annotationId || comment.threadId
GroupKey(c) == IF c.annotationId # NoAnnotation THEN c.annotationId ELSE c.threadId

\* The threads of the item before the final sort: one for each group key among
\* the visible comments of the item's index, in the order of first appearance.
ItemThreads(cs, tc, itemId) ==
    LET ids == IF <<"item", itemId>> \in DOMAIN tc
               THEN InsertionOrder(cs, tc[<<"item", itemId>>])
               ELSE << >>
        visible == SelectSeq(ids, LAMBDA i : ~cs[i].isDeleted)
        firsts == SelectSeq(visible,
                            LAMBDA i : \A j \in Range(visible) :
                                           GroupKey(cs[j]) = GroupKey(cs[i]) => j >= i)
        Thread(first) ==
            LET group == SelectSeq(visible, LAMBDA i : GroupKey(cs[i]) = GroupKey(cs[first]))
                sorted == SortByCreatedAt(cs, group)
            IN [annotationId |-> GroupKey(cs[first]),
                comments |-> sorted,
                status |-> IF cs[sorted[1]].status # NoStatus
                           THEN cs[sorted[1]].status
                           ELSE StatusOpen,
                lastActivity |-> Max({Activity(cs[i]) : i \in Range(group)})]
    IN [k \in DOMAIN firsts |-> Thread(firsts[k])]

\* Mutant of getCommentThreads: the threads are returned as they were grouped.
getCommentThreadsUnsorted(cs, tc, itemId) == ItemThreads(cs, tc, itemId)

getCommentThreads(cs, tc, itemId) == SortByLastActivity(ItemThreads(cs, tc, itemId))

\* user.userId || user.userSnippylyId || user.id
CommentUserId(user) == Or(user.userId, Or(user.userSnippylyId, user.id))

\* The comment record built by createCommentWithAnnotation.
AnnotationComment(id, annotationId, data, t) ==
    [id |-> id,
     annotationId |-> annotationId,
     itemId |-> data.itemId,
     threadId |-> data.itemId,
     threadType |-> "item",
     content |-> data.content,
     type |-> IF data.type # NoType THEN data.type ELSE TypeComment,
     parentId |-> data.parentId,
     isReply |-> data.isReply,
     userId |-> CommentUserId(data.user),
     status |-> StatusOpen,
     createdAt |-> t,
     updatedAt |-> NoTime,
     isDeleted |-> FALSE,
     reactions |-> NoReactions,
     replies |-> << >>]

createCommentWithAnnotation(cs, tc, data, t) ==
    LET id == Len(cs) + 1
        annotationId == IF data.replyToAnnotationId # NoAnnotation
                        THEN data.replyToAnnotationId
                        ELSE id
        c == AnnotationComment(id, annotationId, data, t)
    IN [comments |-> PushReply(Append(cs, c), c),
        threadComments |-> IndexAdd(tc, <<"item", data.itemId>>, c.id),
        comment |-> c.id]

\* Mutant of getCommentThread: the deleted comments are not filtered out.
getCommentThreadWithDeleted(cs, annotationId) ==
    LET found == SelectSeq([i \in DOMAIN cs |-> i],
                           LAMBDA i : cs[i].annotationId = annotationId)
        sorted == SortByCreatedAt(cs, found)
    IN [annotationId |-> annotationId,
        comments |-> sorted,
        status |-> IF sorted # << >> /\ cs[sorted[1]].status # NoStatus
                   THEN cs[sorted[1]].status
                   ELSE StatusOpen]

\* The ids of the thread's comments; status is that of the first one, else 'open'.
getCommentThread(cs, annotationId) ==
    LET found == SelectSeq([i \in DOMAIN cs |-> i],
                           LAMBDA i : cs[i].annotationId = annotationId /\ ~cs[i].isDeleted)
        sorted == SortByCreatedAt(cs, found)
    IN [annotationId |-> annotationId,
        comments |-> sorted,
        status |-> IF sorted # << >> /\ cs[sorted[1]].status # NoStatus
                   THEN cs[sorted[1]].status
                   ELSE StatusOpen]

\* The place of comment i among the comments of the annotation, in the
\* order of the Map: forEach visits them in insertion order.
Visit(cs, annotationId, i) ==
    Cardinality({j \in 1..i : cs[j].annotationId = annotationId})

\* Mutants of updateCommentStatus: one that skips the deleted comments, and
\* one that sets the status of the thread's latest comment only.
updateCommentStatusVisibleOnly(cs, annotationId, status, ts) ==
    [comments |-> [i \in DOMAIN cs |->
                      IF cs[i].annotationId = annotationId /\ ~cs[i].isDeleted
                      THEN [cs[i] EXCEPT !.status = status,
                                         !.updatedAt = ts[Visit(cs, annotationId, i)]]
                      ELSE cs[i]],
     updated |-> \E i \in DOMAIN cs : cs[i].annotationId = annotationId /\ ~cs[i].isDeleted]

updateCommentStatusLatest(cs, annotationId, status, ts) ==
    [comments |-> [i \in DOMAIN cs |->
                      IF /\ cs[i].annotationId = annotationId
                         /\ \A j \in DOMAIN cs : cs[j].annotationId = annotationId => j <= i
                      THEN [cs[i] EXCEPT !.status = status,
                                         !.updatedAt = ts[Visit(cs, annotationId, i)]]
                      ELSE cs[i]],
     updated |-> \E i \in DOMAIN cs : cs[i].annotationId = annotationId]

\* ts: the readings of the clock, one for each comment of the annotation in
\* the order forEach visits them.
updateCommentStatus(cs, annotationId, status, ts) ==
    [comments |-> [i \in DOMAIN cs |->
                      IF cs[i].annotationId = annotationId
                      THEN [cs[i] EXCEPT !.status = status,
                                         !.updatedAt = ts[Visit(cs, annotationId, i)]]
                      ELSE cs[i]],
     updated |-> \E i \in DOMAIN cs : cs[i].annotationId = annotationId]

\* How many times updateCommentStatus(annotationId, ...) reads the clock.
updateCommentStatusReads(cs, annotationId) ==
    Cardinality({i \in DOMAIN cs : cs[i].annotationId = annotationId})

\* Mutants of ToggleReaction: a toggle that leaves the actor in the other
\* types' sets, and one that sets the reaction without looking for it first.
ToggleReactionNoExclusive(reactions, reactionType, userId) ==
    IF userId \in reactions[reactionType]
    THEN [reactions EXCEPT ![reactionType] = @ \ {userId}]
    ELSE [reactions EXCEPT ![reactionType] = @ \cup {userId}]

ToggleReactionAddOnly(reactions, reactionType, userId) ==
    [type \in DOMAIN reactions |->
        IF type = reactionType
        THEN reactions[type] \cup {userId}
        ELSE reactions[type] \ {userId}]

\* Mutant of ToggleReaction: a reaction that is set becomes the only one of
\* its type.
ToggleReactionAlone(reactions, reactionType, userId) ==
    IF userId \in reactions[reactionType]
    THEN [reactions EXCEPT ![reactionType] = @ \ {userId}]
    ELSE [type \in DOMAIN reactions |->
             IF type = reactionType
             THEN {userId}
             ELSE reactions[type] \ {userId}]

\* The toggle of addReaction(annotationId, commentId, reactionType, user), the
\* definition of the class that is in effect (the later one of the two).
ToggleReaction(reactions, reactionType, userId) ==
    IF userId \in reactions[reactionType]
    THEN [reactions EXCEPT ![reactionType] = @ \ {userId}]
    ELSE [type \in DOMAIN reactions |->
             IF type = reactionType
             THEN reactions[type] \cup {userId}
             ELSE reactions[type] \ {userId}]

\* user.userId || user.id
ReactionUserId(user) == Or(user.userId, user.id)

\* Mutant of addReaction: the annotation of the comment is not compared.
addReactionAnyAnnotation(cs, annotationId, commentId, reactionType, user, t) ==
    IF commentId \notin DOMAIN cs
    THEN [comments |-> cs, result |-> FALSE, threw |-> FALSE]
    ELSE IF reactionType \in InheritedTypes
    THEN [comments |-> cs, result |-> FALSE, threw |-> TRUE]
    ELSE [comments |-> [cs EXCEPT
                          ![commentId].reactions =
                              ToggleReaction(@, reactionType, ReactionUserId(user)),
                          ![commentId].updatedAt = t],
          result |-> TRUE, threw |-> FALSE]

\* addReaction: result is whether it returned the reactions (FALSE for null
\* and for a call that threw), threw whether it threw.  Under a name that
\* comment.reactions inherits no Map is made, and the call throws at `.has`
\* before it has written anything.
addReaction(cs, annotationId, commentId, reactionType, user, t) ==
    IF commentId \notin DOMAIN cs
    THEN [comments |-> cs, result |-> FALSE, threw |-> FALSE]
    ELSE IF cs[commentId].annotationId # annotationId
    THEN [comments |-> cs, result |-> FALSE, threw |-> FALSE]
    ELSE IF reactionType \in InheritedTypes
    THEN [comments |-> cs, result |-> FALSE, threw |-> TRUE]
    ELSE [comments |-> [cs EXCEPT
                          ![commentId].reactions =
                              ToggleReaction(@, reactionType, ReactionUserId(user)),
                          ![commentId].updatedAt = t],
          result |-> TRUE, threw |-> FALSE]

----------------------------------------------------------------------------
(* NotificationManager *)

\* NotificationManager.getThreadParticipants
NotificationThreadParticipants(threadId, threadType) == << >>

createCommentNotification(ns, c, authorId, t) ==
    LET participants == NotificationThreadParticipants(c.threadId, c.threadType)
        recipients == SelectSeq(participants, LAMBDA u : u # authorId)
    IN ns \o [i \in DOMAIN recipients |->
                [id |-> Len(ns) + i,
                 type |-> "new_comment",
                 recipientId |-> recipients[i],
                 commentId |-> c.id,
                 authorId |-> c.userId,
                 read |-> FALSE,
                 createdAt |-> t,
                 readAt |-> NoTime]]

\* createCustomNotification(recipientId, type, data): data is not modelled.
createCustomNotification(ns, recipientId, type, t) ==
    Append(ns, [id |-> Len(ns) + 1,
                type |-> type,
                recipientId |-> recipientId,
                commentId |-> NoId,
                authorId |-> NoUser,
                read |-> FALSE,
                createdAt |-> t,
                readAt |-> NoTime])

\* A notification's id is its position in the order of creation.  A position
\* whose notification was deleted from the Map holds Removed and is never used
\* again, as a uuid is never generated twice.
Removed ==
    [id |-> NoId, type |-> "removed", recipientId |-> NoUser, commentId |-> NoId,
     authorId |-> NoUser, read |-> FALSE, createdAt |-> NoTime, readAt |-> NoTime]

\* The keys of this.notifications.
Stored(ns) == {i \in DOMAIN ns : ns[i] # Removed}

\* userNotifications.get(userId): saveNotification adds every notification to
\* the Set of its recipient and the deletions take it out again, so the Set
\* is the stored ids with that recipient.
UserNotifications(ns, userId) == {i \in Stored(ns) : ns[i].recipientId = userId}

\* Mutant of markAsRead: the recipient is not checked.
markAsReadNoAuth(ns, notificationId, userId, t) ==
    IF notificationId \notin Stored(ns)
    THEN [notifications |-> ns, result |-> FALSE]
    ELSE [notifications |-> [ns EXCEPT ![notificationId].read = TRUE,
                                       ![notificationId].readAt = t],
          result |-> TRUE]

\* Mutant of markAsRead: a notification that is read already is refused.
markAsReadOnce(ns, notificationId, userId, t) ==
    IF notificationId \notin Stored(ns)
    THEN [notifications |-> ns, result |-> FALSE]
    ELSE IF ns[notificationId].recipientId # userId \/ ns[notificationId].read
    THEN [notifications |-> ns, result |-> FALSE]
    ELSE [notifications |-> [ns EXCEPT ![notificationId].read = TRUE,
                                       ![notificationId].readAt = t],
          result |-> TRUE]

markAsRead(ns, notificationId, userId, t) ==
    IF notificationId \notin Stored(ns)
    THEN [notifications |-> ns, result |-> FALSE]
    ELSE IF ns[notificationId].recipientId # userId
    THEN [notifications |-> ns, result |-> FALSE]
    ELSE [notifications |-> [ns EXCEPT ![notificationId].read = TRUE,
                                       ![notificationId].readAt = t],
          result |-> TRUE]

\* Mutant of markAllAsRead: every notification of the user has its flag
\* flipped.
markAllAsReadFlips(ns, userId, t) ==
    LET mine == UserNotifications(ns, userId)
    IN [notifications |-> [i \in DOMAIN ns |->
                              IF i \in mine
                              THEN [ns[i] EXCEPT !.read = ~@, !.readAt = t]
                              ELSE ns[i]],
        markedCount |-> Cardinality(mine)]

markAllAsRead(ns, userId, t) ==
    LET unread == {i \in UserNotifications(ns, userId) : ~ns[i].read}
    IN [notifications |-> [i \in DOMAIN ns |->
                              IF i \in unread
                              THEN [ns[i] EXCEPT !.read = TRUE, !.readAt = t]
                              ELSE ns[i]],
        markedCount |-> Cardinality(unread)]

deleteNotification(ns, notificationId, userId) ==
    IF notificationId \notin Stored(ns)
    THEN [notifications |-> ns, result |-> FALSE]
    ELSE IF ns[notificationId].recipientId # userId
    THEN [notifications |-> ns, result |-> FALSE]
    ELSE [notifications |-> [ns EXCEPT ![notificationId] = Removed],
          result |-> TRUE]

\* cleanupOldNotifications(daysOld): cutoff is the present less daysOld days.
cleanupOldNotifications(ns, cutoff) ==
    LET old == {i \in Stored(ns) : ns[i].createdAt < cutoff}
    IN [notifications |-> [i \in DOMAIN ns |-> IF i \in old THEN Removed ELSE ns[i]],
        deletedCount |-> Cardinality(old)]

\* sort((a, b) => new Date(b.createdAt) - new Date(a.createdAt)): stable,
\* newest first.
RECURSIVE SortNewestFirst(_, _)
SortNewestFirst(ns, ids) ==
    IF ids = << >>
    THEN << >>
    ELSE LET n == Len(ids)
             x == ids[n]
             sorted == SortNewestFirst(ns, SubSeq(ids, 1, n - 1))
             k == Cardinality({i \in DOMAIN sorted : ns[sorted[i]].createdAt >= ns[x].createdAt})
         IN SubSeq(sorted, 1, k) \o <<x>> \o SubSeq(sorted, k + 1, Len(sorted))

\* Mutants of getUnreadNotifications: the cut to `limit` made before the
\* sort, and the read notifications kept.
getUnreadNotificationsCutFirst(ns, userId, limit) ==
    LET all == InsertionOrder(ns, UserNotifications(ns, userId))
        unread == SelectSeq(all, LAMBDA i : ~ns[i].read)
    IN SortNewestFirst(ns, Slice(unread, 0, limit))

getUnreadNotificationsAll(ns, userId, limit) ==
    LET all == InsertionOrder(ns, UserNotifications(ns, userId))
    IN Slice(SortNewestFirst(ns, all), 0, limit)

\* The ids of the notifications returned, in the order returned.
getUnreadNotifications(ns, userId, limit) ==
    LET all == InsertionOrder(ns, UserNotifications(ns, userId))
        unread == SelectSeq(all, LAMBDA i : ~ns[i].read)
    IN Slice(SortNewestFirst(ns, unread), 0, limit)

----------------------------------------------------------------------------
(* server.js: validation *)

ValidContent(content) == Len(content) >= MinContentLen /\ Len(content) <= MaxContentLen

----------------------------------------------------------------------------
(* server.js: what the handlers emit *)

\* A room name `${type}:${id}`, kept as the pair of its parts.
Room(type, id) == <<type, id>>

\* No room: the handler emitted to the requesting socket only.
NoRoom == << >>

\* `${x.threadType}:${x.threadId}` of an object without these properties.
UndefinedRoom == Room("undefined", "undefined")

\* `annotation:${annotationId}`
AnnotationRoom(annotationId) == Room("annotation", ToString(annotationId))

\* What a handler was asked and how it answered: "ok" (the success events
\* were emitted) or the error it emitted to the requesting socket.  `last` is
\* the latest answer emitted since the loop last took events from the network.
Result(op, id, res) == [op |-> op, id |-> id, res |-> res, room |-> NoRoom]

\* A handler that succeeded and emitted its event with io.to(room).
Published(op, id, room) == [op |-> op, id |-> id, res |-> "ok", room |-> room]

\* No answer: the handler has not come to its answer, nothing is emitted yet.
NoAnswer == Result("none", NoId, "none")

----------------------------------------------------------------------------
(* server.js: the socket of a connection *)

\* What a client presents as handshake.auth.token: nothing, a token signed
\* with the server's secret and in date, one with another signature, or one
\* that has expired.
NoToken == "notoken"
ValidToken == "valid"
Tokens == {NoToken, ValidToken, "forged", "expired"}

\* What a client presents as handshake.auth.user or handshake.query.user:
\* nothing (NoObject), a user object, a string that is the JSON text of a
\* user object, or a string that is no JSON text.
Json(user) == [json |-> user]
Text(name) == [text |-> name]

\* typeof userInfo === "string", and whether JSON.parse throws on it.
IsString(userInfo) == "json" \in DOMAIN userInfo \/ "text" \in DOMAIN userInfo
Parses(userInfo) == "json" \in DOMAIN userInfo

\* userInfo.userId || userInfo.id || userInfo.userSnippylyId
SocketUserId(userInfo) == Or(userInfo.userId, Or(userInfo.id, userInfo.userSnippylyId))

\* `guest-${socket.id}` and `user-${socket.id}`
GuestId(id) == "guest-" \o ToString(id)
UserId(id) == "user-" \o ToString(id)

\* socket.userInfo and socket.userId as io.on("connection") sets them on the
\* socket id of a connection with this handshake.  Of a user object the model
\* keeps the three fields an id is read from: { username, name } has none.
Accept(id, token, userInfo) ==
    IF IsString(userInfo)
    THEN IF Parses(userInfo)
         THEN [id |-> id, token |-> token, userInfo |-> userInfo.json,
               userId |-> SocketUserId(userInfo.json)]
         ELSE [id |-> id, token |-> token,
               userInfo |-> UserObject(Undefined, Undefined, Undefined),
               userId |-> UserId(id)]
    ELSE IF userInfo # NoObject
    THEN [id |-> id, token |-> token, userInfo |-> userInfo,
          userId |-> SocketUserId(userInfo)]
    ELSE [id |-> id, token |-> token,
          userInfo |-> UserObject(Undefined, GuestId(id), Undefined),
          userId |-> GuestId(id)]

\* No socket: a call that no connection has asked for.
NoSocket == [id |-> NoId, token |-> NoToken, userInfo |-> NoObject, userId |-> NoUser]

----------------------------------------------------------------------------
(* The event loop *)

\* ticks: the events socket.io has dispatched and whose handlers have not
\* started; jobs: the handlers suspended at an await, in the order in which
\* they started.  Every promise the handlers await is resolved when it is
\* awaited, so each await costs one turn of the microtask queue.
EmptyLoop == [ticks |-> << >>, jobs |-> << >>]

\* An event: the handler's name, the connection's socket and what the client
\* sent.
Event(h, s, args) == <<h, s, args>>

\* A suspended handler: at is the statement it resumes at, round the number
\* of awaits it has behind it when it resumes, args what it holds of the
\* request and still reads, and answer the event it is going to emit.
Job(h, s, at, round, args, answer) ==
    [h |-> h, s |-> s, at |-> at, round |-> round, args |-> args, answer |-> answer]

\* No store method is in the middle of its body.
NoBlock ==
    [op |-> "none", s |-> NoSocket, id |-> NoId, replies |-> << >>, awaiting |-> FALSE]

\* Mutant of CascadeAwaits: deleteComment awaits the save of each reply it
\* redacts.
CascadeAwaitsEachReply == TRUE

\* Whether deleteComment awaits between the redaction of the comment and its
\* return: the loop over comment.replies assigns to the replies and contains
\* no await.
CascadeAwaits == FALSE

\* The event loop starts or resumes a handler only when the code that runs has
\* returned or has reached an await.
Runnable == running = NoBlock \/ running.awaiting

\* The event loop takes up the next events of the network when no handler
\* is waiting to start and none is suspended at an await.
Idle == loop = EmptyLoop

\* The events one read of a connection's transport carries are dispatched
\* together.
Receive(events) ==
    /\ Runnable
    /\ Idle
    /\ loop' = [loop EXCEPT !.ticks = @ \o events]
    /\ last' = NoAnswer
    /\ UNCHANGED <<comments, threadComments, notifications, now, running, sockets>>

\* The handler of event e starts: e is the first of the dispatched events,
\* or it is the one event a read of the network carries.
Dispatched(e) ==
    /\ Runnable
    /\ IF loop.ticks = << >> THEN Idle ELSE Head(loop.ticks) = e

\* last when a handler has started and emitted nothing: nothing is emitted
\* yet in answer to the events of a read that has just been taken.
Heard == IF loop.ticks = << >> THEN NoAnswer ELSE last

\* The suspended handler that resumes next.  The microtask queue is first in,
\* first out: the handler with the fewest awaits behind it and, of those, the
\* one that started first.
NextJob ==
    CHOOSE k \in DOMAIN loop.jobs :
        \A i \in DOMAIN loop.jobs :
            \/ loop.jobs[k].round < loop.jobs[i].round
            \/ loop.jobs[k].round = loop.jobs[i].round /\ k <= i

\* Handler h resumes at statement at: every dispatched event has had the
\* synchronous start of its handler.
Resumes(h, at) ==
    /\ Runnable
    /\ loop.ticks = << >>
    /\ loop.jobs # << >>
    /\ loop.jobs[NextJob].h = h
    /\ loop.jobs[NextJob].at = at

\* The jobs without job k.
Without(jobs, k) == SubSeq(jobs, 1, k - 1) \o SubSeq(jobs, k + 1, Len(jobs))

\* The loop after the handler of the first dispatched event has started and
\* returned without an await, and after it has started and suspended as job j.
Returned == [loop EXCEPT !.ticks = IF @ = << >> THEN @ ELSE Tail(@)]
Suspended(j) == [ticks |-> IF loop.ticks = << >> THEN << >> ELSE Tail(loop.ticks),
                 jobs |-> Append(loop.jobs, j)]

\* The loop after the handler that resumed has suspended again as job j, and
\* after it has returned.
Again(j) == [loop EXCEPT !.jobs[NextJob] = j]
Finished == [loop EXCEPT !.jobs = Without(@, NextJob)]

----------------------------------------------------------------------------
(* server.js: socket handlers.  s is the connection's socket. *)

Ids == DOMAIN comments
IdInputs == Ids \cup {BogusId}
ParentInputs == Ids \cup {BogusId, NoId}
AnnotationIds == {comments[i].annotationId : i \in Ids} \ {NoAnnotation}
AnnotationInputs == AnnotationIds \cup {BogusAnnotation}

\* user || socket.userInfo
Actor(user, s) == IF user # NoObject THEN user ELSE s.userInfo

\* The clock after a call that read it as ts, or not at all.
Clock(ts) == IF ts = << >> THEN now ELSE ts[Len(ts)]

\* socket.on("new_comment"), up to `await rateLimiter.consume`; admitted is
\* what the limiter decides.
NewComment(s, admitted, key, content, parentId) ==
    /\ Dispatched(Event("new_comment", s, <<admitted, key, content, parentId>>))
    /\ loop' = Suspended(Job("new_comment", s, "admitted", 1,
                             <<admitted, key, content, parentId>>, NoAnswer))
    /\ last' = Heard
    /\ UNCHANGED <<comments, threadComments, notifications, now, running, sockets>>

\* Mutant of NewCommentStore: the request is validated before the limiter's
\* decision is looked at.
NewCommentStoreValidatesFirst ==
    /\ Resumes("new_comment", "admitted")
    /\ LET j == loop.jobs[NextJob]
           r == createComment(comments, threadComments,
                              [threadType |-> j.args[2][1], threadId |-> j.args[2][2],
                               content |-> j.args[3], parentId |-> j.args[4],
                               userId |-> j.s.userId], now)
       IN IF ~ValidContent(j.args[3])
          THEN /\ last' = Result("new_comment", NoId, "invalid")
               /\ loop' = Finished
               /\ UNCHANGED <<comments, threadComments>>
          ELSE IF ~j.args[1]
          THEN /\ last' = Result("new_comment", NoId, "rate_limited")
               /\ loop' = Finished
               /\ UNCHANGED <<comments, threadComments>>
          ELSE /\ comments' = r.comments
               /\ threadComments' = r.threadComments
               /\ loop' = Again([j EXCEPT
                                   !.at = "emit",
                                   !.args = << >>,
                                   !.round = @ + (IF j.args[4] # NoId THEN 2 ELSE 1),
                                   !.answer = Published("new_comment", r.comment,
                                                        Room(j.args[2][1], j.args[2][2]))])
               /\ UNCHANGED last
    /\ UNCHANGED <<notifications, now, running, sockets>>

\* new_comment after the limiter: the limiter's error, the validation, and
\* createComment, which stores within the call; the handler then awaits the
\* call and, for a comment with a parentId, getComment.
NewCommentStore ==
    /\ Resumes("new_comment", "admitted")
    /\ LET j == loop.jobs[NextJob]
           r == createComment(comments, threadComments,
                              [threadType |-> j.args[2][1], threadId |-> j.args[2][2],
                               content |-> j.args[3], parentId |-> j.args[4],
                               userId |-> j.s.userId], now)
       IN IF ~j.args[1]
          THEN /\ last' = Result("new_comment", NoId, "rate_limited")
               /\ loop' = Finished
               /\ UNCHANGED <<comments, threadComments>>
          ELSE IF ~ValidContent(j.args[3])
          THEN /\ last' = Result("new_comment", NoId, "invalid")
               /\ loop' = Finished
               /\ UNCHANGED <<comments, threadComments>>
          ELSE /\ comments' = r.comments
               /\ threadComments' = r.threadComments
               /\ loop' = Again([j EXCEPT
                                   !.at = "emit",
                                   !.args = << >>,
                                   !.round = @ + (IF j.args[4] # NoId THEN 2 ELSE 1),
                                   !.answer = Published("new_comment", r.comment,
                                                        Room(j.args[2][1], j.args[2][2]))])
               /\ UNCHANGED last
    /\ UNCHANGED <<notifications, now, running, sockets>>

\* new_comment after its awaits: comment_added goes to the room, and
\* createCommentNotification is called with the comment.
NewCommentEmit ==
    /\ Resumes("new_comment", "emit")
    /\ LET j == loop.jobs[NextJob]
       IN /\ last' = j.answer
          /\ loop' = Again([j EXCEPT !.at = "notify", !.round = @ + 1])
    /\ UNCHANGED <<comments, threadComments, notifications, now, running, sockets>>

\* createCommentNotification has its participants (await getThreadParticipants)
\* and saves a notification for each recipient; what is left of the handler
\* only logs.
NewCommentNotify ==
    /\ Resumes("new_comment", "notify")
    /\ LET j == loop.jobs[NextJob]
       IN notifications' = createCommentNotification(notifications,
                                comments[j.answer.id], j.s.userId, now)
    /\ loop' = Finished
    /\ UNCHANGED <<comments, threadComments, now, last, running, sockets>>

\* socket.on("update_comment"), up to the await of updateComment, which
\* writes within the call.
UpdateComment(s, commentId, content) ==
    /\ Dispatched(Event("update_comment", s, <<commentId, content>>))
    /\ IF ~ValidContent(content)
       THEN /\ last' = Result("update_comment", commentId, "invalid")
            /\ loop' = Returned
            /\ UNCHANGED comments
       ELSE LET r == updateComment(comments, commentId, content, s.userId, now)
            IN /\ comments' = r.comments
               /\ loop' = Suspended(Job("update_comment", s, "emit", 1, << >>,
                              IF r.result # NoId
                              THEN Published("update_comment", commentId,
                                             Room(r.comments[r.result].threadType,
                                                  r.comments[r.result].threadId))
                              ELSE Result("update_comment", commentId, "error")))
               /\ last' = Heard
    /\ UNCHANGED <<threadComments, notifications, now, running, sockets>>

\* update_comment after the await: comment_updated to the room, or the error.
UpdateCommentEmit ==
    /\ Resumes("update_comment", "emit")
    /\ last' = loop.jobs[NextJob].answer
    /\ loop' = Finished
    /\ UNCHANGED <<comments, threadComments, notifications, now, running, sockets>>

\* socket.on("delete_comment"), up to the await of deleteComment, which
\* redacts within the call.  The room is named after threadType and threadId
\* of what deleteComment returned, which is the Map of the comments.
DeleteComment(s, commentId) ==
    /\ Dispatched(Event("delete_comment", s, <<commentId>>))
    /\ \E ts \in Readings(now, deleteCommentReads(comments, commentId)) :
          LET r == deleteComment(comments, commentId, s.userId, ts)
          IN /\ comments' = r.comments
             /\ now' = IF r.result = "null" THEN now ELSE Clock(ts)
             /\ loop' = Suspended(Job("delete_comment", s, "emit", 1, << >>,
                            IF r.result = "store"
                            THEN Published("delete_comment", commentId, UndefinedRoom)
                            ELSE Result("delete_comment", commentId, "error")))
    /\ last' = Heard
    /\ UNCHANGED <<threadComments, notifications, running, sockets>>

\* delete_comment after the await: comment_deleted to the room, or the error.
DeleteCommentEmit ==
    /\ Resumes("delete_comment", "emit")
    /\ last' = loop.jobs[NextJob].answer
    /\ loop' = Finished
    /\ UNCHANGED <<comments, threadComments, notifications, now, running, sockets>>

\* addCommentSchema: content of 1..2000 characters, and itemId or annotationId.
ValidAddComment(req) ==
    /\ ValidContent(req.content)
    /\ req.itemId # NoItem \/ req.annotationId # NoAnnotation

\* Mutant of ResolveTarget: a reply takes its item and its default parent from
\* the oldest stored comment of the thread, deleted or not.
ResolveTargetOldestStored(cs, req) ==
    LET detectIsReply == req.isReply \/ req.type = TypeReply
        threadAnnotationId == IF req.parentAnnotationId # NoAnnotation
                              THEN req.parentAnnotationId
                              ELSE req.annotationId
        replyThread == getCommentThreadWithDeleted(cs, threadAnnotationId)
        thread == getCommentThread(cs, req.annotationId)
    IN IF detectIsReply
       THEN IF getCommentThread(cs, threadAnnotationId).comments # << >>
            THEN [found |-> TRUE,
                  itemId |-> cs[replyThread.comments[1]].itemId,
                  parentId |-> IF req.parentCommentId # NoId
                               THEN req.parentCommentId
                               ELSE replyThread.comments[1],
                  replyToAnnotationId |-> threadAnnotationId,
                  isReply |-> TRUE]
            ELSE [found |-> FALSE, itemId |-> req.itemId, parentId |-> req.parentId,
                  replyToAnnotationId |-> NoAnnotation, isReply |-> TRUE]
       ELSE IF req.annotationId # NoAnnotation /\ req.itemId = NoItem
       THEN IF thread.comments # << >>
            THEN [found |-> TRUE,
                  itemId |-> cs[thread.comments[1]].itemId,
                  parentId |-> req.parentId,
                  replyToAnnotationId |-> NoAnnotation,
                  isReply |-> FALSE]
            ELSE [found |-> FALSE, itemId |-> req.itemId, parentId |-> req.parentId,
                  replyToAnnotationId |-> NoAnnotation, isReply |-> FALSE]
       ELSE [found |-> TRUE, itemId |-> req.itemId, parentId |-> req.parentId,
             replyToAnnotationId |-> NoAnnotation, isReply |-> FALSE]

\* The part of add_comment that finds the item, the parent and the annotation
\* of the comment to store; found = FALSE where the handler throws.
ResolveTarget(cs, req) ==
    LET detectIsReply == req.isReply \/ req.type = TypeReply
        threadAnnotationId == IF req.parentAnnotationId # NoAnnotation
                              THEN req.parentAnnotationId
                              ELSE req.annotationId
        replyThread == getCommentThread(cs, threadAnnotationId)
        thread == getCommentThread(cs, req.annotationId)
    IN IF detectIsReply
       THEN IF replyThread.comments # << >>
            THEN [found |-> TRUE,
                  itemId |-> cs[replyThread.comments[1]].itemId,
                  parentId |-> IF req.parentCommentId # NoId
                               THEN req.parentCommentId
                               ELSE replyThread.comments[1],
                  replyToAnnotationId |-> threadAnnotationId,
                  isReply |-> TRUE]
            ELSE [found |-> FALSE, itemId |-> req.itemId, parentId |-> req.parentId,
                  replyToAnnotationId |-> NoAnnotation, isReply |-> TRUE]
       ELSE IF req.annotationId # NoAnnotation /\ req.itemId = NoItem
       THEN IF thread.comments # << >>
            THEN [found |-> TRUE,
                  itemId |-> cs[thread.comments[1]].itemId,
                  parentId |-> req.parentId,
                  replyToAnnotationId |-> NoAnnotation,
                  isReply |-> FALSE]
            ELSE [found |-> FALSE, itemId |-> req.itemId, parentId |-> req.parentId,
                  replyToAnnotationId |-> NoAnnotation, isReply |-> FALSE]
       ELSE [found |-> TRUE, itemId |-> req.itemId, parentId |-> req.parentId,
             replyToAnnotationId |-> NoAnnotation, isReply |-> FALSE]

\* socket.on("add_comment"), up to `await rateLimiter.consume`; admitted is
\* what the limiter decides.
AddComment(s, admitted, req) ==
    /\ Dispatched(Event("add_comment", s, <<admitted, req>>))
    /\ loop' = Suspended(Job("add_comment", s, "admitted", 1, <<admitted, req>>, NoAnswer))
    /\ last' = Heard
    /\ UNCHANGED <<comments, threadComments, notifications, now, running, sockets>>

\* The request awaits getCommentThread before it stores.
LooksUp(req) ==
    \/ req.isReply \/ req.type = TypeReply
    \/ req.annotationId # NoAnnotation /\ req.itemId = NoItem

\* createCommentWithAnnotation as add_comment calls it.
StoreTarget(cs, tc, target, req, s, t) ==
    createCommentWithAnnotation(cs, tc,
        [itemId |-> target.itemId,
         content |-> req.content,
         type |-> IF target.isReply THEN TypeReply ELSE req.type,
         parentId |-> target.parentId,
         replyToAnnotationId |-> target.replyToAnnotationId,
         isReply |-> target.isReply,
         user |-> Actor(req.user, s)], t)

\* The awaits of add_comment from the call of createCommentWithAnnotation to
\* the emits: the call itself, getComment for a comment with a parentId,
\* getCommentThread, socket.join and getCommentThreads.
AwaitsToEmit(parentId) == IF parentId # NoId THEN 5 ELSE 4

\* The job of an add_comment that has stored comment r.comment of target.
Stored2Emit(j, target, r) ==
    [j EXCEPT !.at = "emit",
              !.args = << >>,
              !.round = @ + AwaitsToEmit(target.parentId),
              !.answer = Published("add_comment", r.comment, Room("item", target.itemId))]

\* add_comment after the limiter: the limiter's error, the validation, then
\* the lookup of the thread and the await on it, or, for a request that needs
\* no lookup, createCommentWithAnnotation, which stores within the call.
AddCommentLookup ==
    /\ Resumes("add_comment", "admitted")
    /\ LET j == loop.jobs[NextJob]
           req == j.args[2]
           target == ResolveTarget(comments, req)
           r == StoreTarget(comments, threadComments, target, req, j.s, now)
       IN IF ~j.args[1]
          THEN /\ last' = Result("add_comment", NoId, "rate_limited")
               /\ loop' = Finished
               /\ UNCHANGED <<comments, threadComments>>
          ELSE IF ~ValidAddComment(req)
          THEN /\ last' = Result("add_comment", NoId, "invalid")
               /\ loop' = Finished
               /\ UNCHANGED <<comments, threadComments>>
          ELSE IF LooksUp(req)
          THEN /\ loop' = Again([j EXCEPT !.at = "store", !.round = @ + 1,
                                          !.args = <<j.args[1], req, target>>])
               /\ UNCHANGED <<comments, threadComments, last>>
          ELSE /\ comments' = r.comments
               /\ threadComments' = r.threadComments
               /\ loop' = Again(Stored2Emit(j, target, r))
               /\ UNCHANGED last
    /\ UNCHANGED <<notifications, now, running, sockets>>

\* add_comment after getCommentThread: the error when the lookup found no
\* thread, otherwise the comment is stored with the item, the parent and the
\* annotation the lookup has found.
AddCommentStore ==
    /\ Resumes("add_comment", "store")
    /\ LET j == loop.jobs[NextJob]
           target == j.args[3]
           r == StoreTarget(comments, threadComments, target, j.args[2], j.s, now)
       IN IF ~target.found
          THEN /\ last' = Result("add_comment", NoId, "error")
               /\ loop' = Finished
               /\ UNCHANGED <<comments, threadComments>>
          ELSE /\ comments' = r.comments
               /\ threadComments' = r.threadComments
               /\ loop' = Again(Stored2Emit(j, target, r))
               /\ UNCHANGED last
    /\ UNCHANGED <<notifications, now, running, sockets>>

\* add_comment after its awaits: comment_added and comment_threads_updated
\* go to the room of the item.
AddCommentEmit ==
    /\ Resumes("add_comment", "emit")
    /\ last' = loop.jobs[NextJob].answer
    /\ loop' = Finished
    /\ UNCHANGED <<comments, threadComments, notifications, now, running, sockets>>

\* Mutant of UpdateCommentStatus: the event is published whether or not a
\* comment was found.
UpdateCommentStatusAlwaysPublishes(s, annotationId, status, user) ==
    /\ Dispatched(Event("update_comment_status", s, <<annotationId, status, user>>))
    /\ \E ts \in Readings(now, updateCommentStatusReads(comments, annotationId)) :
          LET r == updateCommentStatus(comments, annotationId, status, ts)
          IN /\ comments' = r.comments
             /\ now' = Clock(ts)
             /\ loop' = Suspended(Job("update_comment_status", s, "emit", 1,
                                <<annotationId, status>>,
                            [Published("update_comment_status", NoId,
                                       AnnotationRoom(annotationId))
                                EXCEPT !.res = IF r.updated THEN "ok" ELSE "error"]))
    /\ last' = Heard
    /\ UNCHANGED <<threadComments, notifications, running, sockets>>

\* socket.on("update_comment_status"), up to the await of updateCommentStatus,
\* which writes within the call.
UpdateCommentStatus(s, annotationId, status, user) ==
    /\ Dispatched(Event("update_comment_status", s, <<annotationId, status, user>>))
    /\ \E ts \in Readings(now, updateCommentStatusReads(comments, annotationId)) :
          LET r == updateCommentStatus(comments, annotationId, status, ts)
          IN /\ comments' = r.comments
             /\ now' = Clock(ts)
             /\ loop' = Suspended(Job("update_comment_status", s, "emit", 1,
                                <<annotationId, status>>,
                            IF r.updated
                            THEN Published("update_comment_status", NoId,
                                           AnnotationRoom(annotationId))
                            ELSE Result("update_comment_status", NoId, "error")))
    /\ last' = Heard
    /\ UNCHANGED <<threadComments, notifications, running, sockets>>

\* update_comment_status after the await: comment_status_updated to the room
\* of the annotation, or the error.
UpdateCommentStatusEmit ==
    /\ Resumes("update_comment_status", "emit")
    /\ last' = loop.jobs[NextJob].answer
    /\ loop' = Finished
    /\ UNCHANGED <<comments, threadComments, notifications, now, running, sockets>>

\* socket.on("add_reaction"), up to the await of addReaction, which toggles
\* within the call.  The handler answers a call that threw, in its catch, as
\* it answers one that returned null.
AddReaction(s, annotationId, commentId, reaction, user) ==
    /\ Dispatched(Event("add_reaction", s, <<annotationId, commentId, reaction, user>>))
    /\ LET r == addReaction(comments, annotationId, commentId, reaction,
                            Actor(user, s), now)
       IN /\ comments' = r.comments
          /\ loop' = Suspended(Job("add_reaction", s, "emit", 1,
                         <<annotationId, commentId, reaction, user>>,
                         IF r.result
                         THEN Published("add_reaction", commentId,
                                        AnnotationRoom(annotationId))
                         ELSE Result("add_reaction", commentId, "error")))
    /\ last' = Heard
    /\ UNCHANGED <<threadComments, notifications, now, running, sockets>>

\* add_reaction after the await: reaction_updated to the room of the
\* annotation, or the error.
AddReactionEmit ==
    /\ Resumes("add_reaction", "emit")
    /\ last' = loop.jobs[NextJob].answer
    /\ loop' = Finished
    /\ UNCHANGED <<comments, threadComments, notifications, now, running, sockets>>

\* socket.on("ack_notification"), up to the await of markAsRead for the
\* connection's user, which writes within the call.
AckNotification(s, notificationId) ==
    /\ Dispatched(Event("ack_notification", s, <<notificationId>>))
    /\ LET r == markAsRead(notifications, notificationId, s.userId, now)
       IN /\ notifications' = r.notifications
          /\ loop' = Suspended(Job("ack_notification", s, "emit", 1, << >>,
                         Result("ack_notification", notificationId,
                                IF r.result THEN "true" ELSE "false")))
    /\ last' = Heard
    /\ UNCHANGED <<comments, threadComments, now, running, sockets>>

\* ack_notification after the await: the handler emits nothing and returns;
\* res is what markAsRead returned.
AckNotificationReturn ==
    /\ Resumes("ack_notification", "emit")
    /\ last' = loop.jobs[NextJob].answer
    /\ loop' = Finished
    /\ UNCHANGED <<comments, threadComments, notifications, now, running, sockets>>

----------------------------------------------------------------------------
(* deleteComment, statement by statement *)

\* delete_comment up to the loop of deleteComment: the checks, and the
\* redaction of the comment itself.  A call that fails returns null, which
\* the handler awaits.
DeleteCall(s, commentId) ==
    /\ running = NoBlock
    /\ Dispatched(Event("delete_comment", s, <<commentId>>))
    /\ IF commentId \notin DOMAIN comments
       THEN /\ loop' = Suspended(Job("delete_comment", s, "emit", 1, << >>,
                                     Result("delete_comment", commentId, "error")))
            /\ UNCHANGED <<comments, running>>
       ELSE IF comments[commentId].userId # s.userId
       THEN /\ loop' = Suspended(Job("delete_comment", s, "emit", 1, << >>,
                                     Result("delete_comment", commentId, "error")))
            /\ UNCHANGED <<comments, running>>
       ELSE /\ comments' = [comments EXCEPT ![commentId] = Redact(@, now)]
            /\ running' = [op |-> "deleteComment", s |-> s, id |-> commentId,
                           replies |-> comments[commentId].replies,
                           awaiting |-> CascadeAwaits]
            /\ loop' = Returned
    /\ last' = Heard
    /\ UNCHANGED <<threadComments, notifications, now, sockets>>

\* One turn of the loop over comment.replies.
DeleteCascade ==
    /\ running.op = "deleteComment"
    /\ running.replies # << >>
    /\ comments' = CascadeReplies(comments, <<Head(running.replies)>>, <<now>>).comments
    /\ running' = [running EXCEPT !.replies = Tail(@)]
    /\ UNCHANGED <<threadComments, notifications, now, last, sockets, loop>>

\* The return of deleteComment: the handler is suspended at its await.
DeleteReturn ==
    /\ running.op = "deleteComment"
    /\ running.replies = << >>
    /\ running' = NoBlock
    /\ loop' = [loop EXCEPT !.jobs =
                    Append(@, Job("delete_comment", running.s, "emit", 1, << >>,
                                  Published("delete_comment", running.id, UndefinedRoom)))]
    /\ UNCHANGED <<comments, threadComments, notifications, now, last, sockets>>

\* socket.on("join_thread"), up to `await socket.join`.
JoinThread(s, key) ==
    /\ Dispatched(Event("join_thread", s, <<key>>))
    /\ loop' = Suspended(Job("join_thread", s, "read", 1, <<key>>, NoAnswer))
    /\ last' = Heard
    /\ UNCHANGED <<comments, threadComments, notifications, now, running, sockets>>

\* join_thread after socket.join: the comments of the thread are read with
\* getCommentsForThread, which the handler awaits.
JoinThreadRead ==
    /\ Resumes("join_thread", "read")
    /\ LET j == loop.jobs[NextJob]
       IN loop' = Again([j EXCEPT
                           !.at = "emit",
                           !.round = @ + 1,
                           !.args = <<j.args[1],
                                      getCommentsForThread(comments, threadComments,
                                          j.args[1][2], j.args[1][1],
                                          DefaultLimit, DefaultOffset)>>,
                           !.answer = Result("join_thread", NoId, "ok")])
    /\ UNCHANGED <<comments, threadComments, notifications, now, last, running, sockets>>

\* join_thread after the read: thread_comments goes to the requesting socket.
JoinThreadEmit ==
    /\ Resumes("join_thread", "emit")
    /\ last' = loop.jobs[NextJob].answer
    /\ loop' = Finished
    /\ UNCHANGED <<comments, threadComments, notifications, now, running, sockets>>

\* socket.on("get_comment_threads"), up to `await socket.join`.
GetCommentThreads(s, itemId) ==
    /\ Dispatched(Event("get_comment_threads", s, <<itemId>>))
    /\ loop' = Suspended(Job("get_comment_threads", s, "read", 1, <<itemId>>, NoAnswer))
    /\ last' = Heard
    /\ UNCHANGED <<comments, threadComments, notifications, now, running, sockets>>

\* get_comment_threads after socket.join: the threads of the item are read
\* with getCommentThreads, which the handler awaits.
GetCommentThreadsRead ==
    /\ Resumes("get_comment_threads", "read")
    /\ LET j == loop.jobs[NextJob]
       IN loop' = Again([j EXCEPT
                           !.at = "emit",
                           !.round = @ + 1,
                           !.args = <<j.args[1],
                                      getCommentThreads(comments, threadComments, j.args[1])>>,
                           !.answer = Result("get_comment_threads", NoId, "ok")])
    /\ UNCHANGED <<comments, threadComments, notifications, now, last, running, sockets>>

\* get_comment_threads after the read: comment_threads_updated goes to the
\* requesting socket.
GetCommentThreadsEmit ==
    /\ Resumes("get_comment_threads", "emit")
    /\ last' = loop.jobs[NextJob].answer
    /\ loop' = Finished
    /\ UNCHANGED <<comments, threadComments, notifications, now, running, sockets>>

----------------------------------------------------------------------------
(* server.js: connections *)

\* io.on("connection"): the connection is accepted and gets its socket, the
\* id of which is the number of the connection.  The token of the handshake
\* is not read.
Connect(token, userInfo) ==
    /\ Runnable
    /\ Idle
    /\ sockets' = sockets \cup {Accept(Cardinality(sockets) + 1, token, userInfo)}
    /\ last' = Result("connection", NoId, "ok")
    /\ UNCHANGED <<comments, threadComments, notifications, now, running, loop>>

----------------------------------------------------------------------------
(* NotificationManager methods that no handler calls: a call is made while
   no handler is running or suspended *)

\* createCustomNotification up to `await this.saveNotification`, which writes
\* within the call.
CreateCustomNotification(recipientId, type) ==
    /\ Runnable
    /\ Idle
    /\ notifications' = createCustomNotification(notifications, recipientId, type, now)
    /\ loop' = Suspended(Job("create_custom_notification", NoSocket, "return", 1, << >>,
                    Result("create_custom_notification", Len(notifications) + 1, "ok")))
    /\ last' = NoAnswer
    /\ UNCHANGED <<comments, threadComments, now, running, sockets>>

\* createCustomNotification after the await: the notification is returned.
CreateCustomNotificationReturn ==
    /\ Resumes("create_custom_notification", "return")
    /\ last' = loop.jobs[NextJob].answer
    /\ loop' = Finished
    /\ UNCHANGED <<comments, threadComments, notifications, now, running, sockets>>

MarkAllAsRead(userId) ==
    /\ Runnable
    /\ Idle
    /\ LET r == markAllAsRead(notifications, userId, now)
       IN /\ notifications' = r.notifications
          /\ last' = Result("mark_all_as_read", NoId, "ok")
    /\ UNCHANGED <<comments, threadComments, now, running, sockets, loop>>

DeleteNotification(notificationId, userId) ==
    /\ Runnable
    /\ Idle
    /\ LET r == deleteNotification(notifications, notificationId, userId)
       IN /\ notifications' = r.notifications
          /\ last' = Result("delete_notification", notificationId,
                            IF r.result THEN "true" ELSE "false")
    /\ UNCHANGED <<comments, threadComments, now, running, sockets, loop>>

CleanupOldNotifications(cutoff) ==
    /\ Runnable
    /\ Idle
    /\ LET r == cleanupOldNotifications(notifications, cutoff)
       IN /\ notifications' = r.notifications
          /\ last' = Result("cleanup_old_notifications", NoId, "ok")
    /\ UNCHANGED <<comments, threadComments, now, running, sockets, loop>>

----------------------------------------------------------------------------
(* The requests the model sends *)

\* The user object that names a user by userId alone, and what the requests
\* carry as user: such an object or nothing.
Named(u) == UserObject(u, Undefined, Undefined)
UserInputs == {Named(u) : u \in Users} \cup {NoObject}

\* The connections of the two users, which named themselves by userId in the
\* handshake.
Sessions == {Accept(1, NoToken, Named("u1")), Accept(2, NoToken, Named("u2"))}
Session(u) == CHOOSE s \in Sessions : s.userId = u

Request(itemId, annotationId, content, type, user, parentId, isReply, parentCommentId, parentAnnotationId) ==
    [itemId |-> itemId, annotationId |-> annotationId, content |-> content,
     type |-> type, user |-> user, parentId |-> parentId, isReply |-> isReply,
     parentCommentId |-> parentCommentId, parentAnnotationId |-> parentAnnotationId]

ContentInputs == Contents \cup {EmptyContent}

\* A comment that opens an annotation: the fields a reply carries are absent.
OpeningRequests ==
    {Request(itemId, annotationId, content, NoType, user, parentId, FALSE, NoId, NoAnnotation) :
        itemId \in Items \cup {NoItem},
        annotationId \in AnnotationInputs \cup {NoAnnotation},
        content \in ContentInputs,
        user \in UserInputs,
        parentId \in ParentInputs}

\* A reply: flagged by isReply or by type; parentId, which the handler then
\* overwrites, is absent.
ReplyRequests ==
    {Request(itemId, annotationId, content, flag[1], user, NoId, flag[2],
             parentCommentId, parentAnnotationId) :
        itemId \in Items,
        annotationId \in AnnotationInputs \cup {NoAnnotation},
        content \in Contents,
        flag \in {<<TypeReply, FALSE>>, <<NoType, TRUE>>},
        user \in UserInputs,
        parentCommentId \in ParentInputs,
        parentAnnotationId \in AnnotationIds \cup {NoAnnotation}}

----------------------------------------------------------------------------

Init ==
    /\ comments = << >>
    /\ threadComments = << >>
    /\ notifications = << >>
    /\ now = 1
    /\ last = Result("init", NoId, "ok")
    /\ running = NoBlock
    /\ sockets = {}
    /\ loop = EmptyLoop

\* The clock reaches its next millisecond.
Tick ==
    /\ now < MaxTime
    /\ now' = now + 1
    /\ UNCHANGED <<comments, threadComments, notifications, last, running, sockets, loop>>

\* Every handler that touches the comment store, on a store of at most
\* MaxComments comments.  Requests carry no user of their own, annotation
\* comments open a thread of item "i1" or reply to an existing thread.
SimpleRequests ==
    {Request(itemId, NoAnnotation, content, NoType, NoObject, NoId, FALSE, NoId, NoAnnotation) :
        itemId \in Items, content \in ContentInputs}
    \cup
    {Request(itemId, NoAnnotation, content, NoType, NoObject, NoId, TRUE, NoId, pa) :
        itemId \in Items, content \in Contents, pa \in AnnotationInputs}

Next ==
    \/ \E admitted \in BOOLEAN, key \in ThreadKeys, content \in ContentInputs,
          parentId \in Ids \cup {NoId} :
          Len(comments) < MaxComments /\ NewComment(Session("u1"), admitted, key, content, parentId)
    \/ NewCommentStore
    \/ NewCommentEmit
    \/ NewCommentNotify
    \/ \E admitted \in BOOLEAN, req \in SimpleRequests :
          Len(comments) < MaxComments /\ AddComment(Session("u1"), admitted, req)
    \/ AddCommentLookup
    \/ AddCommentStore
    \/ AddCommentEmit
    \/ \E s \in Sessions, commentId \in IdInputs, content \in ContentInputs :
          UpdateComment(s, commentId, content)
    \/ UpdateCommentEmit
    \/ \E s \in Sessions, commentId \in IdInputs : DeleteComment(s, commentId)
    \/ DeleteCommentEmit
    \/ \E annotationId \in AnnotationInputs, status \in Statuses :
          UpdateCommentStatus(Session("u1"), annotationId, status, NoObject)
    \/ UpdateCommentStatusEmit
    \/ \E s \in Sessions, annotationId \in AnnotationInputs, commentId \in IdInputs,
          reaction \in {"like", "constructor"} :
          AddReaction(s, annotationId, commentId, reaction, NoObject)
    \/ AddReactionEmit

Spec == Init /\ [][Next]_vars

\* The legacy thread handlers that create and delete, on a thread of at most
\* MaxThread comments: deep enough for replies of replies.  "u1" writes the
\* comments, by admitted and valid requests; either user asks to delete them.
NextCascade ==
    \/ \E key \in ThreadKeys, content \in Contents, parentId \in ParentInputs :
          Len(comments) < MaxThread /\ NewComment(Session("u1"), TRUE, key, content, parentId)
    \/ \E s \in Sessions, commentId \in IdInputs : DeleteComment(s, commentId)
    \/ NewCommentStore
    \/ NewCommentEmit
    \/ NewCommentNotify
    \/ DeleteCommentEmit

SpecCascade == Init /\ [][NextCascade]_vars

\* What the requests of a reaction carry as user: nothing, an object with
\* the userId of another user, or one with a userSnippylyId only.
ReactUsers == {NoObject, Named("u2"), UserObject(Undefined, Undefined, "u2")}

\* Reactions by every actor with every reaction type and with a name that
\* comment.reactions inherits, on at most MaxReacted
\* annotation comments.  The requests come in on the connection of "u1", in
\* its own name or in the name the request carries.
NextReact ==
    \/ \E itemId \in Items, content \in Contents :
          /\ Len(comments) < MaxReacted
          /\ AddComment(Session("u1"), TRUE, Request(itemId, NoAnnotation, content, NoType,
                                                     NoObject, NoId, FALSE, NoId, NoAnnotation))
    \/ \E annotationId \in AnnotationInputs, commentId \in IdInputs,
          reaction \in ReactionInputs, user \in ReactUsers :
          AddReaction(Session("u1"), annotationId, commentId, reaction, user)
    \/ AddCommentLookup
    \/ AddCommentEmit
    \/ AddReactionEmit

\* The connections whose identity is recorded: those of the two users, and
\* one whose handshake carried an id and another userSnippylyId.
IdentitySessions == Sessions \cup {Accept(3, NoToken, UserObject(Undefined, "u1", "u2"))}

\* What their requests carry as user: nothing, or an object with a userId,
\* with a userSnippylyId only, or with a name only.
IdentityUsers ==
    UserInputs \cup {UserObject(Undefined, Undefined, "u2"),
                     UserObject(Undefined, Undefined, Undefined)}

\* Identities: every connection adds comments and reactions in every name and
\* asks to delete the comments, on a store of at most MaxIdentified comments.
NextIdentity ==
    \/ \E s \in IdentitySessions, itemId \in Items, content \in Contents,
          user \in IdentityUsers :
          /\ Len(comments) < MaxIdentified
          /\ AddComment(s, TRUE, Request(itemId, NoAnnotation, content, NoType, user,
                                         NoId, FALSE, NoId, NoAnnotation))
    \/ \E s \in IdentitySessions, annotationId \in AnnotationIds, commentId \in Ids,
          user \in IdentityUsers :
          AddReaction(s, annotationId, commentId, "like", user)
    \/ \E s \in IdentitySessions, commentId \in Ids : DeleteComment(s, commentId)
    \/ AddCommentLookup
    \/ AddCommentEmit
    \/ AddReactionEmit
    \/ DeleteCommentEmit

SpecIdentity == Init /\ [][NextIdentity]_vars

SpecReact == Init /\ [][NextReact]_vars

\* Reactions of two types, and of an inherited name, by either actor on the
\* comments of several annotations, at most MaxFramed of them, written by "u1".
NextFrame ==
    \/ \E itemId \in Items, content \in Contents :
          /\ Len(comments) < MaxFramed
          /\ AddComment(Session("u1"), TRUE, Request(itemId, NoAnnotation, content, NoType, NoObject,
                                            NoId, FALSE, NoId, NoAnnotation))
    \/ \E s \in Sessions, annotationId \in AnnotationInputs, commentId \in IdInputs,
          reaction \in {"like", "heart", "constructor"} :
          AddReaction(s, annotationId, commentId, reaction, NoObject)
    \/ AddCommentLookup
    \/ AddCommentEmit
    \/ AddReactionEmit

SpecFrame == Init /\ [][NextFrame]_vars

\* The two handlers that create comments, with every shape of request, on a
\* store of at most MaxCreated comments.  An add_comment comes from the socket
\* of "u1", in its own name or with "u2" as the user of the request.
NextCreate ==
    \/ \E s \in Sessions, admitted \in BOOLEAN, key \in ThreadKeys,
          content \in ContentInputs, parentId \in ParentInputs :
          Len(comments) < MaxCreated /\ NewComment(s, admitted, key, content, parentId)
    \/ \E admitted \in BOOLEAN, req \in OpeningRequests \cup ReplyRequests :
          /\ Len(comments) < MaxCreated
          /\ req.user # Named("u1")
          /\ AddComment(Session("u1"), admitted, req)
    \/ NewCommentStore
    \/ NewCommentEmit
    \/ NewCommentNotify
    \/ AddCommentLookup
    \/ AddCommentStore
    \/ AddCommentEmit

SpecCreate == Init /\ [][NextCreate]_vars

\* A comment that opens an annotation of an item, or a reply: one of type
\* "reply" that names its thread by annotationId and may name another by
\* parentAnnotationId, or one with isReply that names the item and the thread
\* by parentAnnotationId, or one that names a thread by parentAnnotationId and
\* neither item nor annotationId.  A reply names the comment replied to, a
\* stored or an unknown one, or none.  No request carries a user of its own.
ThreadRequests ==
    {Request(itemId, NoAnnotation, content, NoType, NoObject, NoId, FALSE, NoId, NoAnnotation) :
        itemId \in Items, content \in ContentInputs}
    \cup
    {Request(NoItem, annotationId, content, TypeReply, NoObject, NoId, FALSE,
             parentCommentId, parentAnnotationId) :
        annotationId \in AnnotationInputs,
        content \in Contents,
        parentCommentId \in ParentInputs,
        parentAnnotationId \in AnnotationIds \cup {NoAnnotation}}
    \cup
    {Request(itemId, NoAnnotation, content, NoType, NoObject, NoId, TRUE,
             parentCommentId, parentAnnotationId) :
        itemId \in Items \cup {NoItem},
        content \in Contents,
        parentCommentId \in ParentInputs,
        parentAnnotationId \in AnnotationInputs}

\* Annotation threads: one author adds comments to them, by admitted requests,
\* and either user asks to delete them, on a store of at most MaxAnnotated
\* comments.
NextThread ==
    \/ \E req \in ThreadRequests :
          Len(comments) < MaxAnnotated /\ AddComment(Session("u1"), TRUE, req)
    \/ \E s \in Sessions, commentId \in IdInputs : DeleteComment(s, commentId)
    \/ AddCommentLookup
    \/ AddCommentStore
    \/ AddCommentEmit
    \/ DeleteCommentEmit

\* Listing a legacy thread: one author writes comments and replies into it and
\* deletes them while the clock runs, on a thread of at most MaxListed comments.
NextList ==
    \/ \E key \in ThreadKeys, content \in Contents, parentId \in ParentInputs :
          Len(comments) < MaxListed /\ NewComment(Session("u1"), TRUE, key, content, parentId)
    \/ \E commentId \in Ids : DeleteComment(Session("u1"), commentId)
    \/ Tick
    \/ NewCommentStore
    \/ NewCommentEmit
    \/ NewCommentNotify
    \/ DeleteCommentEmit

SpecList == Init /\ [][NextList]_vars

SpecThread == Init /\ [][NextThread]_vars

\* Comments of both kinds whose parentId is any stored comment, none or an
\* unknown one, and their deletion by either user, on a store of at most
\* MaxAnchored comments written by "u1".
AnchoredRequests ==
    {Request(itemId, NoAnnotation, content, NoType, NoObject, parentId, FALSE, NoId, NoAnnotation) :
        itemId \in Items, content \in Contents, parentId \in ParentInputs}

NextAnchors ==
    \/ \E key \in ThreadKeys, content \in Contents, parentId \in ParentInputs :
          Len(comments) < MaxAnchored /\ NewComment(Session("u1"), TRUE, key, content, parentId)
    \/ \E req \in AnchoredRequests :
          Len(comments) < MaxAnchored /\ AddComment(Session("u1"), TRUE, req)
    \/ \E s \in Sessions, commentId \in IdInputs : DeleteComment(s, commentId)
    \/ Tick
    \/ NewCommentStore
    \/ NewCommentEmit
    \/ NewCommentNotify
    \/ AddCommentLookup
    \/ AddCommentEmit
    \/ DeleteCommentEmit

SpecAnchors == Init /\ [][NextAnchors]_vars

\* The content an update_comment request carries in NextOwners.
Edits == {"edited"}

\* Legacy comments written by either user under any stored parent, and
\* requests of either user to update and to delete them, on a store of at
\* most MaxOwned comments.
NextOwners ==
    \/ \E s \in Sessions, key \in ThreadKeys, content \in Contents, parentId \in Ids \cup {NoId} :
          Len(comments) < MaxOwned /\ NewComment(s, TRUE, key, content, parentId)
    \/ \E s \in Sessions, commentId \in IdInputs, content \in Edits :
          UpdateComment(s, commentId, content)
    \/ \E s \in Sessions, commentId \in IdInputs : DeleteComment(s, commentId)
    \/ NewCommentStore
    \/ NewCommentEmit
    \/ NewCommentNotify
    \/ UpdateCommentEmit
    \/ DeleteCommentEmit

SpecOwners == Init /\ [][NextOwners]_vars

\* Requests of add_comment in NextInterleave: comments under any stored parent
\* or none, and replies that look their thread up.
InterleavedRequests ==
    {Request(itemId, NoAnnotation, content, NoType, NoObject, parentId, FALSE, NoId, NoAnnotation) :
        itemId \in Items, content \in Contents, parentId \in Ids \cup {NoId}}
    \cup
    {Request(itemId, NoAnnotation, content, NoType, NoObject, NoId, TRUE, NoId, parentAnnotationId) :
        itemId \in Items, content \in Contents, parentAnnotationId \in AnnotationIds}

\* The events a connection sends in NextInterleave.
InterleavedEvents(s) ==
    {Event("new_comment", s, <<TRUE, key, content, parentId>>) :
        key \in ThreadKeys, content \in Contents, parentId \in Ids \cup {NoId}}
    \cup {Event("add_comment", s, <<TRUE, req>>) : req \in InterleavedRequests}
    \cup {Event("delete_comment", s, <<commentId>>) : commentId \in Ids}
    \cup {Event("join_thread", s, <<key>>) : key \in ThreadKeys}
    \cup {Event("get_comment_threads", s, <<itemId>>) : itemId \in Items}

\* The events among events that ask for a comment to be stored.
Creates(events) ==
    Cardinality({k \in DOMAIN events : events[k][1] \in {"new_comment", "add_comment"}})

\* Handlers interleaved at their await points while a deleteComment runs
\* statement by statement and the clock runs: comments of both kinds written
\* by "u1" under any stored parent, replies that look their thread up, deletes
\* by either user and the two handlers that read, the events of "u1" one in a
\* read of the transport or two, on a store of at most MaxInterleaved comments.
NextInterleave ==
    \/ \E e, f \in InterleavedEvents(Session("u1")) : Receive(<<e, f>>)
    \/ \E key \in ThreadKeys, content \in Contents, parentId \in Ids \cup {NoId} :
          NewComment(Session("u1"), TRUE, key, content, parentId)
    \/ NewCommentStore /\ Len(comments') <= MaxInterleaved
    \/ NewCommentEmit
    \/ NewCommentNotify
    \/ \E req \in InterleavedRequests : AddComment(Session("u1"), TRUE, req)
    \/ AddCommentLookup /\ Len(comments') <= MaxInterleaved
    \/ AddCommentStore /\ Len(comments') <= MaxInterleaved
    \/ AddCommentEmit
    \/ \E commentId \in IdInputs : DeleteCall(Session("u1"), commentId)
    \/ DeleteCascade
    \/ DeleteReturn
    \/ DeleteCommentEmit
    \/ \E key \in ThreadKeys : JoinThread(Session("u1"), key)
    \/ JoinThreadRead
    \/ JoinThreadEmit
    \/ \E itemId \in Items : GetCommentThreads(Session("u1"), itemId)
    \/ GetCommentThreadsRead
    \/ GetCommentThreadsEmit

SpecInterleave == Init /\ [][NextInterleave]_vars

\* The event loop: connection "u1" sends new_comment, add_comment and
\* delete_comment events, one in a read of the transport or two, on a store of
\* at most MaxLooped comments.
LoopRequests ==
    {Request(itemId, NoAnnotation, content, NoType, NoObject, NoId, FALSE, NoId, NoAnnotation) :
        itemId \in Items, content \in Contents}
    \cup
    {Request(itemId, NoAnnotation, content, NoType, NoObject, NoId, TRUE, NoId, pa) :
        itemId \in Items, content \in Contents, pa \in AnnotationInputs}

LoopEvents(s) ==
    {Event("new_comment", s, <<TRUE, key, content, NoId>>) :
        key \in ThreadKeys, content \in Contents}
    \cup {Event("add_comment", s, <<TRUE, req>>) : req \in LoopRequests}
    \cup {Event("delete_comment", s, <<commentId>>) : commentId \in Ids}

Batches(s) == {<<e, f>> : e, f \in LoopEvents(s)}

NextLoop ==
    \/ \E events \in Batches(Session("u1")) :
          /\ Len(comments) + Creates(events) <= MaxLooped
          /\ Receive(events)
    \/ \E key \in ThreadKeys, content \in Contents :
          /\ loop.ticks = << >> => Len(comments) < MaxLooped
          /\ NewComment(Session("u1"), TRUE, key, content, NoId)
    \/ NewCommentStore
    \/ NewCommentEmit
    \/ NewCommentNotify
    \/ \E req \in LoopRequests :
          /\ loop.ticks = << >> => Len(comments) < MaxLooped
          /\ AddComment(Session("u1"), TRUE, req)
    \/ AddCommentLookup
    \/ AddCommentStore
    \/ AddCommentEmit
    \/ \E commentId \in Ids : DeleteComment(Session("u1"), commentId)
    \/ DeleteCommentEmit

SpecLoop == Init /\ [][NextLoop]_vars

\* What the connections present as user: nothing, an object with a userId,
\* one with an id and another userSnippylyId, one with a name only, the JSON
\* text of an object, and a text that is no JSON.
Handshakes ==
    {NoObject,
     Named("u1"),
     UserObject(Undefined, "u1", "u2"),
     UserObject(Undefined, Undefined, Undefined),
     Json(Named("u2")),
     Text("u1")}

\* Connections with every kind of token and of user, and the accepted
\* connections' legacy comments: at most MaxSockets connections and
\* MaxComments comments.
NextAuth ==
    \/ \E token \in Tokens, userInfo \in Handshakes :
          Cardinality(sockets) < MaxSockets /\ Connect(token, userInfo)
    \/ \E c \in sockets, key \in ThreadKeys, content \in Contents :
          Len(comments) < MaxComments /\ NewComment(c, TRUE, key, content, NoId)
    \/ \E c \in sockets, commentId \in IdInputs, content \in Contents :
          UpdateComment(c, commentId, content)
    \/ \E c \in sockets, commentId \in IdInputs : DeleteComment(c, commentId)
    \/ NewCommentStore
    \/ NewCommentEmit
    \/ NewCommentNotify
    \/ UpdateCommentEmit
    \/ DeleteCommentEmit

SpecAuth == Init /\ [][NextAuth]_vars

\* The notification store: notifications are created for either user, marked
\* as read, deleted and cleaned up while the clock runs, on at most
\* MaxNotifications of them.  A cleanup's cutoff is no later than the present.
NotificationInputs == DOMAIN notifications \cup {BogusId}

NextNotify ==
    \/ \E recipientId \in Users, type \in NotificationTypes :
          Len(notifications) < MaxNotifications /\ CreateCustomNotification(recipientId, type)
    \/ \E s \in Sessions, notificationId \in NotificationInputs :
          AckNotification(s, notificationId)
    \/ \E userId \in Users : MarkAllAsRead(userId)
    \/ \E userId \in Users, notificationId \in NotificationInputs :
          DeleteNotification(notificationId, userId)
    \/ \E cutoff \in 1..now : CleanupOldNotifications(cutoff)
    \/ Tick
    \/ CreateCustomNotificationReturn
    \/ AckNotificationReturn

SpecNotify == Init /\ [][NextNotify]_vars

\* The threads of an item: one author adds comments, deletes them and sets the
\* status of their threads while the clock runs, on a store of at most
\* MaxInItem comments.
NextItem ==
    \/ \E req \in ThreadRequests :
          Len(comments) < MaxInItem /\ AddComment(Session("u1"), TRUE, req)
    \/ \E commentId \in Ids : DeleteComment(Session("u1"), commentId)
    \/ \E annotationId \in AnnotationIds, status \in Statuses :
          UpdateCommentStatus(Session("u1"), annotationId, status, NoObject)
    \/ Tick
    \/ AddCommentLookup
    \/ AddCommentStore
    \/ AddCommentEmit
    \/ DeleteCommentEmit
    \/ UpdateCommentStatusEmit

SpecItem == Init /\ [][NextItem]_vars

\* The status of annotation threads: set from the connection of "u1", in its
\* own name or with "u2" as the user of the request, on threads that grow by
\* admitted requests and whose comments are deleted, on a store of at most
\* MaxStatused comments.  A request opens an annotation of an item or is a
\* reply of type "reply" to the thread named by annotationId, under a stored
\* comment, an unknown one or the thread's oldest.
StatusRequests ==
    {Request(itemId, NoAnnotation, content, NoType, NoObject, NoId, FALSE, NoId, NoAnnotation) :
        itemId \in Items, content \in ContentInputs}
    \cup
    {Request(NoItem, annotationId, content, TypeReply, NoObject, NoId, FALSE,
             parentCommentId, NoAnnotation) :
        annotationId \in AnnotationIds, content \in Contents, parentCommentId \in ParentInputs}
    \cup
    {Request(NoItem, BogusAnnotation, content, TypeReply, NoObject, NoId, FALSE, NoId, NoAnnotation) :
        content \in Contents}

NextStatus ==
    \/ \E s \in Sessions, req \in StatusRequests :
          Len(comments) < MaxStatused /\ AddComment(s, TRUE, req)
    \/ \E s \in Sessions, commentId \in IdInputs : DeleteComment(s, commentId)
    \/ \E annotationId \in AnnotationInputs, status \in Statuses, user \in {Named("u2"), NoObject} :
          UpdateCommentStatus(Session("u1"), annotationId, status, user)
    \/ AddCommentLookup
    \/ AddCommentStore
    \/ AddCommentEmit
    \/ DeleteCommentEmit
    \/ UpdateCommentStatusEmit

SpecStatus == Init /\ [][NextStatus]_vars

\* A comment that opens an annotation of an item, or a reply to a stored
\* thread under the thread's oldest comment, a stored comment or a comment
\* that is not stored.
StableRequests ==
    {Request(itemId, NoAnnotation, content, NoType, NoObject, NoId, FALSE, NoId, NoAnnotation) :
        itemId \in Items, content \in Contents}
    \cup
    {Request(NoItem, annotationId, content, TypeReply, NoObject, NoId, FALSE, parentCommentId, NoAnnotation) :
        annotationId \in AnnotationIds, content \in Contents, parentCommentId \in ParentInputs}

\* The status of a thread while "u1" adds comments to it and deletes them,
\* on a store of at most MaxStatused comments.
NextStable ==
    \/ \E req \in StableRequests :
          Len(comments) < MaxStatused /\ AddComment(Session("u1"), TRUE, req)
    \/ \E commentId \in Ids : DeleteComment(Session("u1"), commentId)
    \/ \E annotationId \in AnnotationInputs, status \in Statuses :
          UpdateCommentStatus(Session("u1"), annotationId, status, NoObject)
    \/ AddCommentLookup
    \/ AddCommentStore
    \/ AddCommentEmit
    \/ DeleteCommentEmit
    \/ UpdateCommentStatusEmit

SpecStable == Init /\ [][NextStable]_vars

----------------------------------------------------------------------------
(* Claims *)

\* The job a handler suspends as in the step in which it starts.
Asked == loop'.jobs[Len(loop'.jobs)]

\* The step is the start of handler h up to the await of its store call.
Calls(h) ==
    /\ Len(loop'.jobs) = Len(loop.jobs) + 1
    /\ Asked.h = h
    /\ Asked.at = "emit"

\* The answer the store call of that step has decided; the handler emits it
\* when it resumes.
Answer == Asked.answer

\* The handler that resumes in the step, and what it comes to: the answer it
\* emits if it returns in the step, else the one it is suspended with.
Resumed == loop.jobs[NextJob]
Settled == IF Len(loop'.jobs) < Len(loop.jobs) THEN last' ELSE loop'.jobs[NextJob].answer

\* The clock read n times while it stands.
Standing(n) == [k \in 1..n |-> now]

Replies(id) == Range(comments[id].replies)
Redacted(c) == c.isDeleted /\ c.content = REDACTED
Deleted(id) == last.op = "delete_comment" /\ last.id = id /\ last.res = "ok"

\* C1: a successful deleteComment(A) by A's author leaves every B in A.replies
\* deleted with the redaction marker as content, and leaves isDeleted and
\* content of every comment in B.replies that is not in A.replies as they were.
C1_CascadeOneLevel ==
    [][(Calls("delete_comment") /\ Answer.res = "ok") =>
          (comments[Answer.id].userId = Asked.s.userId =>
              \A b \in Replies(Answer.id) :
                  /\ Redacted(comments'[b])
                  /\ \A c \in Replies(b) \ Replies(Answer.id) :
                        /\ comments'[c].isDeleted = comments[c].isDeleted
                        /\ comments'[c].content = comments[c].content)]_vars

\* A was deleted, its reply B is redacted and B's own reply C is still visible.
C1_Witness ==
    \E a \in Ids : \E b \in Replies(a) : \E c \in Replies(b) :
        /\ Deleted(a)
        /\ Redacted(comments[b])
        /\ ~comments[c].isDeleted
        /\ comments[c].content # REDACTED

\* C8: deleteComment(id, actorId) fails and changes no comment when the comment
\* is missing or actorId is not its author; when actorId is the author, the
\* comment and every direct reply, whoever wrote it, are redacted.
C8_DeleteAuthorization ==
    [][Calls("delete_comment") =>
          IF Answer.id \notin Ids \/ comments[Answer.id].userId # Asked.s.userId
          THEN comments' = comments /\ Answer.res = "error"
          ELSE /\ Answer.res = "ok"
               /\ Redacted(comments'[Answer.id])
               /\ \A b \in Replies(Answer.id) : Redacted(comments'[b])]_vars

\* The author deleted a comment that has a reply written by somebody else.
C8_Witness ==
    \E a \in Ids : \E b \in Replies(a) :
        /\ Deleted(a)
        /\ comments[b].userId # comments[a].userId
        /\ Redacted(comments[b])

\* The ids a reaction is recorded under: a user's, or the one read from an
\* object that has none.
Reactors == Users \cup {Undefined}

Held(c, u) == {type \in ReactionTypes : u \in comments[c].reactions[type]}

\* The id the add_reaction of the step toggles the reaction of.
Reactor == ReactionUserId(Actor(Asked.args[4], Asked.s))
Reacted(c) == last.op = "add_reaction" /\ last.id = c /\ last.res = "ok"

\* The reactions of comment c after actor u toggles reactionType on it twice in a row.
ToggledTwice(c, u, reactionType) ==
    LET once == addReaction(comments, comments[c].annotationId, c, reactionType,
                            Named(u), now)
        twice == addReaction(once.comments, comments[c].annotationId, c, reactionType,
                             Named(u), now)
    IN twice.comments[c].reactions

\* C2: in every reachable state, for every comment and every actor, the actor
\* is in the reactor set of at most one reaction type of the comment.
C2_ReactionExclusive ==
    \A c \in Ids : \A u \in Reactors : Cardinality(Held(c, u)) <= 1

\* After a toggle two actors hold reactions on one comment, of two types.
C2_Witness ==
    \E c \in Ids :
        /\ Reacted(c)
        /\ Held(c, "u1") = {"like"}
        /\ Held(c, "u2") = {"heart"}

\* C3, as claimed: from every reachable reaction state, also one where u holds
\* another type, two toggles of one type by u restore every reactor set.
C3_ToggleInvolution ==
    \A c \in Ids : \A u \in Reactors : \A type \in ReactionInputs :
        ToggledTwice(c, u, type) = comments[c].reactions

\* C3, amended: two toggles of type t by u restore every reactor set when u
\* holds no type other than t before them.
C3_ToggleInvolutionUnlessSwitch ==
    \A c \in Ids : \A u \in Reactors : \A type \in ReactionInputs :
        Held(c, u) \subseteq {type} =>
            ToggledTwice(c, u, type) = comments[c].reactions

\* An actor holds a reaction that a toggle set, while the other actor holds another.
C3_Witness ==
    \E c \in Ids : \E u \in Users :
        /\ Reacted(c)
        /\ Held(c, u) = {"heart"}
        /\ \E v \in Users \ {u} : Held(c, v) = {"like"}
        /\ ToggledTwice(c, u, "heart") = comments[c].reactions

\* Actor u is in the reactor set of reactionType.
Holds(reactions, reactionType, u) ==
    reactionType \in DOMAIN reactions /\ u \in reactions[reactionType]

\* C4: on a stored comment c of the annotation named, addReaction(c, u, t)
\* where u does not hold t removes u from every other type's set and adds u to
\* t's; where u holds t it removes u from t and u then holds no reaction on c.
C4_SwitchReaction ==
    [][Calls("add_reaction") =>
          LET annotationId == Asked.args[1]
              c == Asked.args[2]
              type == Asked.args[3]
              u == Reactor
          IN (c \in Ids /\ comments[c].annotationId = annotationId) =>
                IF Holds(comments[c].reactions, type, u)
                THEN \A t2 \in ReactionInputs : ~Holds(comments'[c].reactions, t2, u)
                ELSE /\ Holds(comments'[c].reactions, type, u)
                     /\ \A t2 \in ReactionInputs \ {type} :
                           ~Holds(comments'[c].reactions, t2, u)]_vars

Updated(id) == last.op = "update_comment" /\ last.id = id

\* C5, as claimed: in every reachable state a comment with isDeleted = true has
\* the redaction marker as content (so no update changes a deleted comment's content).
C5_DeletedIsRedacted ==
    \A i \in Ids : comments[i].isDeleted => comments[i].content = REDACTED

\* C6: a comment starts with isDeleted = false, stays in the store, and once
\* its isDeleted is true no handler makes it false again.
C6_DeletedForever ==
    [][/\ \A i \in Ids : /\ i \in DOMAIN comments'
                         /\ comments[i].isDeleted => comments'[i].isDeleted
       /\ \A i \in DOMAIN comments' \ Ids : ~comments'[i].isDeleted]_vars

\* The author has updated a comment after deleting it, and it is still deleted.
C6_Witness ==
    \E i \in Ids :
        /\ Updated(i)
        /\ last.res = "ok"
        /\ comments[i].isDeleted
        /\ comments[i].content # REDACTED

\* C7: updateComment(id, newContent, actorId) fails and changes no field of any
\* comment when the comment is missing or actorId is not its author; when
\* actorId is the author it sets content to newContent and sets updatedAt.
C7_UpdateAuthorization ==
    [][Calls("update_comment") =>
          \A s \in Sessions, content \in Contents :
              UpdateComment(s, Answer.id, content) =>
                  IF Answer.id \notin Ids \/ comments[Answer.id].userId # s.userId
                  THEN comments' = comments /\ Answer.res = "error"
                  ELSE /\ Answer.res = "ok"
                       /\ comments'[Answer.id].content = content
                       /\ comments'[Answer.id].updatedAt = now
                       /\ comments'[Answer.id].updatedAt # NoTime]_vars

\* An update of an existing comment was refused: the actor is not its author.
C7_Witness ==
    \E i \in Ids :
        /\ Updated(i)
        /\ last.res = "error"
        /\ comments[i].updatedAt = NoTime

\* C9, as claimed: a creation whose parentId resolves to no stored comment
\* fails and leaves the comment map, the index and every replies list as they were.
C9_DanglingParentRejected ==
    [][/\ NewCommentStore =>
             LET j == Resumed
             IN (/\ j.args[1]
                 /\ ValidContent(j.args[3])
                 /\ j.args[4] \notin Ids \cup {NoId}) =>
                    /\ comments' = comments
                    /\ threadComments' = threadComments
                    /\ Settled.res = "error"
       /\ (AddCommentLookup \/ AddCommentStore) =>
             LET j == Resumed
                 target == IF j.at = "store" THEN j.args[3]
                           ELSE ResolveTarget(comments, j.args[2])
             IN (/\ j.args[1]
                 /\ ValidAddComment(j.args[2])
                 /\ j.at = "admitted" => ~LooksUp(j.args[2])
                 /\ target.found
                 /\ target.parentId \notin Ids \cup {NoId}) =>
                    /\ comments' = comments
                    /\ threadComments' = threadComments
                    /\ Settled.res = "error"]_vars

SameAnchor(c, d) ==
    /\ c.threadType = d.threadType
    /\ c.threadId = d.threadId
    /\ c.annotationId = d.annotationId

\* C10, as claimed: in every reachable state a stored comment's parentId, when
\* set, is the id of a stored comment with the same anchor key.
C10_ParentInSameAnchor ==
    \A i \in Ids :
        comments[i].parentId # NoId =>
            /\ comments[i].parentId \in Ids
            /\ SameAnchor(comments[i], comments[comments[i].parentId])

AddedComment == last.op = "add_comment" /\ last.res = "ok"

\* The annotation id by which add_comment looks for the thread of a reply.
TargetAnnotation(req) ==
    IF req.parentAnnotationId # NoAnnotation THEN req.parentAnnotationId ELSE req.annotationId

Flagged(req) == req.isReply \/ req.type = TypeReply

\* The visible comments that carry the annotation id.
Visible(annotationId) ==
    {i \in Ids : comments[i].annotationId = annotationId /\ ~comments[i].isDeleted}

\* C11: an admitted, valid add_comment that is flagged as a reply and whose
\* target annotation id has no comment that is not deleted is answered with an
\* error; no comment is stored or indexed and no comment_added is emitted.
C11_ReplyToMissingThread ==
    [][/\ (AddCommentLookup /\ Flagged(Resumed.args[2])) =>
             comments' = comments /\ threadComments' = threadComments
       /\ AddCommentStore =>
             LET req == Resumed.args[2]
             IN (/\ Flagged(req)
                 /\ ValidAddComment(req)
                 /\ Visible(TargetAnnotation(req)) = {}) =>
                    /\ Settled.res = "error"
                    /\ Settled.room = NoRoom
                    /\ comments' = comments
                    /\ threadComments' = threadComments]_vars

\* A reply was refused although its thread has comments: all of them are deleted.
C11_Witness ==
    /\ last.op = "add_comment"
    /\ last.res = "error"
    /\ \E a \in AnnotationIds :
          /\ Visible(a) = {}
          /\ \A i \in Ids : comments[i].annotationId = a /\ comments[i].isDeleted

\* The oldest of a set of comments: the least createdAt, and among equal ones
\* the comment stored first.
OldestOf(ids) ==
    CHOOSE i \in ids :
        \A j \in ids :
            \/ comments[i].createdAt < comments[j].createdAt
            \/ comments[i].createdAt = comments[j].createdAt /\ i <= j

Oldest(annotationId) == OldestOf(Visible(annotationId))

\* C12: an admitted, valid reply whose target annotation has a comment that is
\* not deleted is stored with the target annotation id, with the itemId of the
\* oldest such comment, and with parentCommentId as parentId if the request has
\* one, else the id of that oldest comment.
C12_ReplyTarget ==
    [][AddCommentStore =>
          LET req == Resumed.args[2]
          IN (/\ Flagged(req)
              /\ ValidAddComment(req)
              /\ Visible(TargetAnnotation(req)) # {}) =>
                 LET n == Len(comments) + 1
                     oldest == Oldest(TargetAnnotation(req))
                 IN /\ Settled.res = "ok"
                    /\ Settled.id = n
                    /\ DOMAIN comments' = 1..n
                    /\ comments'[n].annotationId = TargetAnnotation(req)
                    /\ comments'[n].itemId = comments[oldest].itemId
                    /\ comments'[n].parentId = IF req.parentCommentId # NoId
                                               THEN req.parentCommentId
                                               ELSE oldest]_vars

\* A reply without parentCommentId was stored in a thread whose oldest comment
\* is deleted and whose second is not: it hangs under the second.
C12_Witness ==
    /\ AddedComment
    /\ last.id = 3
    /\ \A i \in {2, 3} : comments[i].annotationId = comments[1].annotationId
    /\ comments[1].isDeleted
    /\ \A i \in {2, 3} : ~comments[i].isDeleted
    /\ comments[3].isReply
    /\ comments[3].parentId = 2
    /\ comments[3].itemId = comments[2].itemId
    /\ comments[3].itemId \in Items

StatusSet == last.op = "update_comment_status" /\ last.res = "ok"

\* C13: updateCommentStatus(annotationId, status, actor) sets the status of
\* every stored comment of the annotation, deleted or not, whoever wrote it and
\* whoever asks, leaves the status of the other comments as it was, and
\* succeeds exactly when the annotation has a stored comment.
C13_StatusThreadWide ==
    [][Calls("update_comment_status") =>
          LET a == Asked.args[1]
              status == Asked.args[2]
          IN /\ DOMAIN comments' = Ids
             /\ \A i \in Ids :
                   comments'[i].status = IF comments[i].annotationId = a
                                         THEN status
                                         ELSE comments[i].status
             /\ (Answer.res = "ok") <=> (\E i \in Ids : comments[i].annotationId = a)]_vars

\* The status of a thread of two authors was set: both comments carry it, the
\* deleted one too.
C13_Witness ==
    /\ StatusSet
    /\ \E i, j \in Ids :
          /\ comments[i].annotationId = comments[j].annotationId
          /\ comments[i].userId # comments[j].userId
          /\ comments[i].status = "resolved"
          /\ comments[j].status = "resolved"
          /\ comments[j].isDeleted

\* C14, as claimed: right after every successful updateCommentStatus(X, s),
\* getCommentThread(X) reports the status s.
C14_ThreadReportsStatus ==
    [][(Calls("update_comment_status") /\ Answer.res = "ok") =>
          getCommentThread(comments', Asked.args[1]).status = Asked.args[2]]_vars

\* C14, amended: it does so when the thread has a comment that is not deleted.
C14_VisibleThreadReportsStatus ==
    [][(Calls("update_comment_status") /\ Answer.res = "ok") =>
          (Visible(Asked.args[1]) # {} =>
              getCommentThread(comments', Asked.args[1]).status = Asked.args[2])]_vars

\* The status of a thread of two visible comments was set and the thread reports it.
C14_Witness ==
    /\ StatusSet
    /\ \E a \in AnnotationIds :
          /\ Cardinality(Visible(a)) = 2
          /\ getCommentThread(comments, a).status = "resolved"

\* The nodes of a forest of comment trees, at every depth.
RECURSIVE NodesOf(_)
NodesOf(forest) ==
    UNION {{forest[k]} \cup NodesOf(forest[k].replies) : k \in DOMAIN forest}

\* How many nodes of the forest are the comment id.
RECURSIVE Occurrences(_, _)
Occurrences(forest, id) ==
    IF forest = << >>
    THEN 0
    ELSE (IF Head(forest).id = id THEN 1 ELSE 0)
         + Occurrences(Head(forest).replies, id)
         + Occurrences(Tail(forest), id)

Listed(key, limit, offset) ==
    getCommentsForThread(comments, threadComments, key[2], key[1], limit, offset)

Page(key, limit, offset) ==
    Range(ThreadPage(comments, threadComments, key[2], key[1], limit, offset))

\* C15: for every thread, limit and offset, the top-level nodes that
\* getCommentsForThread returns ascend by createdAt, and the children of every
\* node, at any depth, are exactly the non-deleted comments of the selected
\* page whose parentId is the node's id, each of them once.
C15_TreeShape ==
    \A key \in ThreadKeys, limit \in Limits, offset \in Offsets :
        LET tree == Listed(key, limit, offset)
        IN /\ \A k \in 1..(Len(tree) - 1) :
                 comments[tree[k].id].createdAt <= comments[tree[k + 1].id].createdAt
           /\ \A n \in NodesOf(tree) :
                 LET children == {c \in Page(key, limit, offset) :
                                     ~comments[c].isDeleted /\ comments[c].parentId = n.id}
                 IN /\ {n.replies[k].id : k \in DOMAIN n.replies} = children
                    /\ Len(n.replies) = Cardinality(children)

\* The whole thread is listed: an older comment with its reply under it, and a
\* younger top-level comment after it.
C15_Witness ==
    \E key \in ThreadKeys :
        LET tree == Listed(key, DefaultLimit, DefaultOffset)
        IN /\ Len(tree) = 2
           /\ Len(tree[1].replies) = 1
           /\ comments[tree[1].replies[1].id].parentId = tree[1].id
           /\ comments[tree[1].id].createdAt < comments[tree[2].id].createdAt

\* C16, as claimed: for every thread, limit and offset, a comment of the
\* selected page whose parent is not in the page is a top-level node, and every
\* comment of the page occurs exactly once in the returned tree.
C16_PageListedOnce ==
    \A key \in ThreadKeys, limit \in Limits, offset \in Offsets :
        LET tree == Listed(key, limit, offset)
        IN \A c \in Page(key, limit, offset) :
              /\ Occurrences(tree, c) = 1
              /\ comments[c].parentId \notin Page(key, limit, offset) =>
                     \E k \in DOMAIN tree : tree[k].id = c

\* The visible comments of the item, and those of one of its annotations.
VisibleInItem(itemId) == {i \in Ids : comments[i].itemId = itemId /\ ~comments[i].isDeleted}
VisibleInThread(itemId, annotationId) ==
    {i \in VisibleInItem(itemId) : comments[i].annotationId = annotationId}

\* C17: getCommentThreads(itemId) returns one thread for each annotation id
\* among the non-deleted comments of the item, holding exactly those comments;
\* a thread's status is that of its oldest non-deleted comment, its
\* lastActivity the greatest updatedAt (createdAt where updatedAt is not set) of
\* its non-deleted comments; the threads descend by lastActivity.
C17_ThreadsOfItem ==
    \A itemId \in Items :
        LET threads == getCommentThreads(comments, threadComments, itemId)
            annotations == {comments[i].annotationId : i \in VisibleInItem(itemId)}
        IN /\ {threads[k].annotationId : k \in DOMAIN threads} = annotations
           /\ Len(threads) = Cardinality(annotations)
           /\ \A k \in DOMAIN threads :
                 LET members == VisibleInThread(itemId, threads[k].annotationId)
                 IN /\ Range(threads[k].comments) = members
                    /\ Len(threads[k].comments) = Cardinality(members)
                    /\ threads[k].status = comments[OldestOf(members)].status
                    /\ threads[k].lastActivity =
                          Max({Activity(comments[i]) : i \in members})
           /\ \A k \in 1..(Len(threads) - 1) :
                 threads[k].lastActivity >= threads[k + 1].lastActivity

\* Two threads are listed, and the one opened last comes first: its activity
\* is the later one.
C17_Witness ==
    \E itemId \in Items :
        LET threads == getCommentThreads(comments, threadComments, itemId)
        IN /\ Len(threads) = 2
           /\ threads[1].lastActivity > threads[2].lastActivity
           /\ threads[1].annotationId > threads[2].annotationId

\* C18, as claimed: a creation through new_comment or add_comment adds exactly
\* one unread 'new_comment' notification for each author of a non-deleted
\* comment under the new comment's anchor, its own author left out.
C18_FanOutToParticipants ==
    [][((NewCommentNotify \/ AddCommentEmit) /\ Resumed.answer.res = "ok") =>
          LET c == comments'[Resumed.answer.id]
              participants == {comments'[i].userId :
                                  i \in {j \in DOMAIN comments' :
                                            /\ SameAnchor(comments'[j], c)
                                            /\ ~comments'[j].isDeleted}} \ {c.userId}
              created == {notifications'[k] :
                             k \in (Len(notifications) + 1)..Len(notifications')}
          IN /\ Len(notifications') = Len(notifications) + Cardinality(participants)
             /\ {n.recipientId : n \in created} = participants
             /\ \A n \in created : n.type = "new_comment" /\ ~n.read]_vars

\* C20: markAsRead(notificationId, actorId) returns false and leaves read and
\* readAt of every notification as they were when the notification does not
\* exist or actorId is not its recipient; otherwise it sets read and readAt of
\* the notification and returns true.
C20_MarkAsRead ==
    [][Calls("ack_notification") =>
          \A s \in Sessions :
              AckNotification(s, Answer.id) =>
                  IF \/ Answer.id \notin Stored(notifications)
                     \/ notifications[Answer.id].recipientId # s.userId
                  THEN /\ Answer.res = "false"
                       /\ notifications' = notifications
                  ELSE /\ Answer.res = "true"
                       /\ notifications'[Answer.id].read
                       /\ notifications'[Answer.id].readAt = now
                       /\ notifications'[Answer.id].readAt # NoTime]_vars

\* markAsRead has refused somebody who is not the recipient: the notification
\* is still unread.
C20_Witness ==
    /\ last.op = "ack_notification"
    /\ last.res = "false"
    /\ last.id \in Stored(notifications)
    /\ ~notifications[last.id].read
    /\ notifications[last.id].readAt = NoTime

\* C21: markAsRead is idempotent for the recipient: on a notification the
\* recipient has marked as read, a second markAsRead by the recipient succeeds
\* too, read stays true and the store is the one the first call left.
C21_MarkAsReadIdempotent ==
    \A n \in Stored(notifications) :
        LET u == notifications[n].recipientId
            once == markAsRead(notifications, n, u, now)
            twice == markAsRead(once.notifications, n, u, now)
        IN /\ once.result
           /\ once.notifications[n].read
           /\ twice.result
           /\ twice.notifications[n].read
           /\ twice.notifications = once.notifications

C21_Witness ==
    /\ last.op = "ack_notification"
    /\ last.res = "true"
    /\ last.id \in Stored(notifications)
    /\ notifications[last.id].read
    /\ notifications[last.id].readAt = now

\* C22: the read flag is monotonic: a notification is created unread, and a
\* notification that is read stays read in every step that keeps it.
C22_ReadMonotonic ==
    [][/\ \A n \in DOMAIN notifications' \ DOMAIN notifications :
              ~notifications'[n].read
       /\ \A n \in Stored(notifications) \cap Stored(notifications') :
              notifications[n].read => notifications'[n].read]_vars

C22_Witness ==
    /\ last.op \in {"mark_all_as_read", "delete_notification", "cleanup_old_notifications"}
    /\ \E n \in Stored(notifications) :
          /\ notifications[n].read
          /\ notifications[n].readAt < now
    /\ \E n \in DOMAIN notifications : n \notin Stored(notifications)

\* The unread notifications the user holds.
Unread(userId) ==
    {n \in Stored(notifications) :
        notifications[n].recipientId = userId /\ ~notifications[n].read}

\* C23: getUnreadNotifications(actorId, limit) returns only unread
\* notifications of actorId, each once, newest first, at most limit of them,
\* and none it leaves out is newer than one it returns.
C23_UnreadNewestFirst ==
    \A userId \in Users, limit \in Limits :
        LET r == getUnreadNotifications(notifications, userId, limit)
        IN /\ Range(r) \subseteq Unread(userId)
           /\ \A j, k \in DOMAIN r :
                 j < k => /\ r[j] # r[k]
                          /\ notifications[r[j]].createdAt >= notifications[r[k]].createdAt
           /\ Len(r) = IF Cardinality(Unread(userId)) < limit
                        THEN Cardinality(Unread(userId))
                        ELSE limit
           /\ \A m \in Unread(userId) \ Range(r) :
                 \A k \in DOMAIN r :
                     notifications[r[k]].createdAt >= notifications[m].createdAt

C23_Witness ==
    \E userId \in Users :
        /\ \E m, n \in Unread(userId) :
              notifications[m].createdAt < notifications[n].createdAt
        /\ Len(getUnreadNotifications(notifications, userId, 1)) = 1

\* C24: a successful deleteComment returns the deleted comment, not the
\* store of the comments.
C24_DeleteReturnsComment ==
    [][Calls("delete_comment") /\ Answer.res = "ok" =>
          \A s \in Sessions :
              DeleteComment(s, Answer.id) =>
                  deleteComment(comments, Answer.id, s.userId,
                                Standing(deleteCommentReads(comments, Answer.id))).result
                      = "comment"]_vars

\* The room the subscribers of the comment's anchor have joined.
AnchorRoom(c) == Room(c.threadType, c.threadId)

\* C25: every successful mutation publishes its event to the room of the
\* anchor of each comment it created or changed.
C25_PublishedToAnchorRoom ==
    [][/\ (/\ Len(loop'.jobs) < Len(loop.jobs)
           /\ last'.res = "ok"
           /\ last'.op \in {"new_comment", "add_comment", "update_comment",
                            "delete_comment", "add_reaction"}) =>
             last'.room = AnchorRoom(comments'[last'.id])
       /\ (Calls("update_comment_status") /\ Answer.res = "ok") =>
             \A i \in DOMAIN comments :
                 comments'[i] # comments[i] => Answer.room = AnchorRoom(comments'[i])]_vars

\* C26: addReaction fails when the comment does not exist or its annotationId
\* is not the one supplied, and then no reaction set, no updatedAt and no other
\* field of any comment changes: an add_reaction succeeds only on a stored
\* comment of the annotation supplied, the one its event is published for,
\* and one that fails leaves every comment as it was.
C26_ReactionNotFound ==
    [][Calls("add_reaction") =>
          /\ Answer.res \in {"ok", "error"}
          /\ Answer.res = "ok" =>
                /\ Answer.id \in Ids
                /\ Answer.room = AnnotationRoom(comments[Answer.id].annotationId)
          /\ Answer.res = "error" =>
                /\ \A i \in Ids :
                      /\ comments'[i].reactions = comments[i].reactions
                      /\ comments'[i].updatedAt = comments[i].updatedAt
                /\ comments' = comments]_vars

\* A reaction to a stored comment was refused for its annotation, after the
\* comment had taken a reaction.
C26_Witness ==
    /\ last.op = "add_reaction"
    /\ last.res = "error"
    /\ last.id \in Ids
    /\ comments[last.id].annotationId # NoAnnotation
    /\ comments[last.id].updatedAt # NoTime
    /\ \E type \in ReactionTypes : comments[last.id].reactions[type] # {}

\* C27: a deleteComment on a comment of one anchor changes neither isDeleted
\* nor content of a comment stored under another anchor: a legacy comment is
\* not redacted by the delete of an annotation comment of an item, nor the
\* other way round.
C27_DeleteWithinAnchor ==
    [][Calls("delete_comment") /\ Answer.res = "ok" =>
          \A i \in Ids :
              AnchorRoom(comments[i]) # AnchorRoom(comments[Answer.id]) =>
                  /\ comments'[i].isDeleted = comments[i].isDeleted
                  /\ comments'[i].content = comments[i].content]_vars

\* C28: in new_comment and add_comment the rate limiter comes first: a
\* request it rejects, valid or not, is answered with the rate limit error and
\* creates no comment, no notification and no broadcast.
C28_AdmissionFirst ==
    [][/\ (NewCommentStore /\ ~Resumed.args[1]) =>
             /\ Settled = Result("new_comment", NoId, "rate_limited")
             /\ Len(loop'.jobs) < Len(loop.jobs)
             /\ comments' = comments
             /\ threadComments' = threadComments
             /\ notifications' = notifications
       /\ (AddCommentLookup /\ ~Resumed.args[1]) =>
             /\ Settled = Result("add_comment", NoId, "rate_limited")
             /\ Len(loop'.jobs) < Len(loop.jobs)
             /\ comments' = comments
             /\ threadComments' = threadComments
             /\ notifications' = notifications
       /\ (Len(loop'.jobs) < Len(loop.jobs) /\ last'.res = "rate_limited") =>
             /\ last'.room = NoRoom
             /\ ~Resumed.args[1]
             /\ comments' = comments
             /\ threadComments' = threadComments
             /\ notifications' = notifications]_vars

\* A request was turned away by the rate limiter and the store is still empty.
C28_Witness ==
    /\ last.op = "add_comment"
    /\ last.res = "rate_limited"
    /\ last.room = NoRoom
    /\ comments = << >>
    /\ threadComments = << >>
    /\ notifications = << >>

\* C29: a stored comment keeps its id, its anchor fields (threadType,
\* threadId, itemId, annotationId), its author, its parentId and its createdAt
\* in every step, and no step takes a comment out of the store.
C29_ImmutableFields ==
    [][/\ DOMAIN comments \subseteq DOMAIN comments'
       /\ \A i \in DOMAIN comments :
             /\ comments'[i].id = comments[i].id
             /\ comments'[i].threadType = comments[i].threadType
             /\ comments'[i].threadId = comments[i].threadId
             /\ comments'[i].itemId = comments[i].itemId
             /\ comments'[i].annotationId = comments[i].annotationId
             /\ comments'[i].userId = comments[i].userId
             /\ comments'[i].parentId = comments[i].parentId
             /\ comments'[i].createdAt = comments[i].createdAt]_vars

\* A comment that took a reaction and a status and was then deleted is still
\* stored under its id.
C29_Witness ==
    \E i \in Ids :
        /\ Deleted(i)
        /\ comments[i].id = i
        /\ comments[i].status \in Statuses
        /\ \E type \in ReactionTypes : comments[i].reactions[type] # {}
        /\ comments[i].userId \in Users

\* A deleteComment has redacted the comment and not yet every direct reply.
MidCascade ==
    /\ running.op = "deleteComment"
    /\ \E r \in Range(running.replies) : ~Redacted(comments[r])

\* C30: no read (join_thread with getCommentsForThread, get_comment_threads
\* with getCommentThreads, add_comment with getCommentThread), however the
\* handlers interleave at their awaits, computes its result from a state in
\* which a deleteComment has redacted the parent and not yet all of the direct
\* replies it is going to redact.
C30_ReadsSeeWholeCascade ==
    [][(JoinThreadRead \/ GetCommentThreadsRead \/ AddCommentLookup) => ~MidCascade]_vars

\* The suspended handlers that have read the store: join_thread and
\* get_comment_threads after their read, add_comment after its lookup.
HasRead(j) ==
    \/ j.h \in {"join_thread", "get_comment_threads"} /\ j.at = "emit"
    \/ j.h = "add_comment" /\ j.at = "store"

\* A handler that started before a delete_comment has read after it while the
\* delete_comment is still suspended: the deleteComment in between has
\* redacted a comment and its reply.
C30_Witness ==
    /\ running = NoBlock
    /\ \E k, m \in DOMAIN loop.jobs :
          /\ k < m
          /\ HasRead(loop.jobs[k])
          /\ loop.jobs[m].h = "delete_comment"
          /\ loop.jobs[m].answer.res = "ok"
          /\ LET a == loop.jobs[m].answer.id
             IN /\ Redacted(comments[a])
                /\ Replies(a) # {}
                /\ \A b \in Replies(a) :
                      Redacted(comments[b]) /\ comments[b].updatedAt = comments[a].updatedAt

\* The add_comment handlers that have looked their thread up and not yet stored.
StoreJobs(l) == {l.jobs[k] : k \in {i \in DOMAIN l.jobs : l.jobs[i].at = "store"}}

\* C31: while an add_comment is between the lookup of its reply target thread
\* and its store, no other handler's mutation takes effect, and a reply is
\* only stored into a thread that has a non-deleted comment at the moment of
\* the store.
C31_NoMutationBetween ==
    [][/\ StoreJobs(loop) \cap StoreJobs(loop') # {} => comments' = comments
       /\ (Len(comments') > Len(comments) /\ comments'[Len(comments')].isReply) =>
             getCommentThread(comments, comments'[Len(comments')].annotationId).comments
                 # << >>]_vars

\* C32: only a connection that presented a verified token has a userId to
\* act with: the author of every stored comment is the userId of an accepted
\* connection whose token was valid.
C32_AuthenticatedAuthors ==
    \A i \in Ids :
        \E c \in sockets : c.userId = comments[i].userId /\ c.token = ValidToken

\* C33: when updateComment, deleteComment, updateCommentStatus or addReaction
\* fails, the handler answers the requesting socket with an error and
\* publishes its event to no room.
C33_FailureToRequesterOnly ==
    [][/\ (/\ last'.op \in {"update_comment", "delete_comment", "update_comment_status",
                           "add_reaction"}
           /\ last'.res # "ok") =>
             last'.room = NoRoom
       /\ Calls("update_comment") =>
             /\ Answer.res # "ok" => Answer.room = NoRoom /\ comments' = comments
             /\ Answer.res = "ok" =>
                   \E s \in Sessions, content \in Contents :
                       LET r == updateComment(comments, Answer.id, content, s.userId, now)
                       IN r.result # NoId /\ comments' = r.comments
       /\ Calls("delete_comment") =>
             /\ Answer.res # "ok" => Answer.room = NoRoom /\ comments' = comments
             /\ Answer.res = "ok" =>
                   \E s \in Sessions :
                       \E ts \in Readings(now, deleteCommentReads(comments, Answer.id)) :
                           LET r == deleteComment(comments, Answer.id, s.userId, ts)
                           IN r.result = "store" /\ comments' = r.comments
       /\ Calls("update_comment_status") =>
             /\ Answer.res # "ok" => Answer.room = NoRoom /\ comments' = comments
             /\ Answer.res = "ok" =>
                   \E annotationId \in AnnotationIds, status \in Statuses :
                       \E ts \in Readings(now, updateCommentStatusReads(comments, annotationId)) :
                           LET r == updateCommentStatus(comments, annotationId, status, ts)
                           IN r.updated /\ comments' = r.comments
       /\ Calls("add_reaction") =>
             /\ Answer.res # "ok" => Answer.room = NoRoom /\ comments' = comments
             /\ Answer.res = "ok" =>
                   \E s \in Sessions, annotationId \in AnnotationIds, t \in ReactionTypes :
                       LET r == addReaction(comments, annotationId, Answer.id, t, s.userInfo, now)
                       IN r.result /\ comments' = r.comments]_vars

\* A status update that found no comment was answered with an error, on a
\* store that holds a comment.
C33_Witness ==
    /\ last.op = "update_comment_status"
    /\ last.res = "error"
    /\ last.room = NoRoom
    /\ comments # << >>

\* C34: every id in a replies list is that of a stored comment whose parentId
\* is the owner of the list, no id is listed twice, every stored comment whose
\* parentId is a stored comment is listed by it, and so no deleteComment
\* meets a missing comment in its cascade.
C34_ReplyListIntegrity ==
    /\ \A p \in Ids :
          /\ \A k \in DOMAIN comments[p].replies :
                /\ comments[p].replies[k] \in Ids
                /\ comments[comments[p].replies[k]].parentId = p
                /\ \A j \in DOMAIN comments[p].replies :
                      comments[p].replies[j] = comments[p].replies[k] => j = k
          /\ comments[p].parentId \in Ids => p \in Replies(comments[p].parentId)
    /\ \A commentId \in Ids, s \in Users :
          deleteComment(comments, commentId, s,
                        Standing(deleteCommentReads(comments, commentId))).result # "threw"

\* A comment that lists a reply was deleted, so that the cascade walked its
\* replies list.
C34_Witness ==
    \E p \in Ids : Deleted(p) /\ comments[p].replies # << >>

\* C35 as stated: in every state, every comment in the replies list of a
\* deleted comment is deleted too.
C35_DeletedParentHidesReplies ==
    \A p \in Ids :
        comments[p].isDeleted => \A b \in Replies(p) : comments[b].isDeleted

\* C35, amended: a successful deleteComment of a comment leaves every comment
\* that is in its replies list at that moment deleted, and a deleted comment
\* stays deleted; the replies of a comment deleted by the cascade, and the
\* replies created under a deleted comment, are stored as they are.
C35_DeleteHidesListedReplies ==
    [][/\ (Calls("delete_comment") /\ Answer.res = "ok") =>
             /\ comments'[Answer.id].isDeleted
             /\ \A b \in Range(comments'[Answer.id].replies) : comments'[b].isDeleted
       /\ \A i \in Ids : comments[i].isDeleted => comments'[i].isDeleted
       /\ \A i \in DOMAIN comments' \ Ids : ~comments'[i].isDeleted]_vars

\* A deleted comment lists a reply that was deleted with it and a reply
\* created afterwards, which is visible.
C35_Witness ==
    \E p \in Ids : \E b, c \in Replies(p) :
        /\ comments[p].isDeleted
        /\ comments[b].isDeleted
        /\ b < c
        /\ ~comments[c].isDeleted
        /\ last.op = "new_comment"
        /\ last.id = c

\* The comments whose content or isDeleted the step changes.
Touched ==
    {i \in Ids : \/ comments'[i].content # comments[i].content
                 \/ comments'[i].isDeleted # comments[i].isDeleted}

\* C36: content and isDeleted of a comment change only in an update_comment
\* or delete_comment requested by the author of the comment, on the comment
\* itself, or in a delete_comment requested by the author of its direct
\* parent, on the parent; no other request changes them.
C36_OnlyAuthorOrParentAuthor ==
    [][Touched # {} =>
         /\ Calls("update_comment") \/ Calls("delete_comment")
         /\ Answer.id \in Ids
         /\ \A i \in Touched :
               \/ i = Answer.id /\ comments[i].userId = Asked.s.userId
               \/ /\ Answer.op = "delete_comment"
                  /\ comments[i].parentId = Answer.id
                  /\ comments[Answer.id].userId = Asked.s.userId]_vars

\* The author of a comment deleted it, and with it the reply another actor
\* wrote under it.
C36_Witness ==
    \E p \in Ids : \E b \in Replies(p) :
        /\ Deleted(p)
        /\ comments[b].userId # comments[p].userId
        /\ comments[b].isDeleted

\* C37: the userId stored on a comment created by add_comment, and the actor
\* whose reaction an add_reaction toggles, is the userId of the connection
\* the request came in on, whatever the request carries.
C37_RecordedIdentityIsConnection ==
    [][/\ ((AddCommentLookup \/ AddCommentStore) /\ Settled.res = "ok") =>
             comments'[Settled.id].userId = Resumed.s.userId
       /\ (Calls("add_reaction") /\ Answer.res = "ok") =>
             \A u \in Reactors \ {Asked.s.userId} : \A type \in ReactionTypes :
                 u \in comments'[Answer.id].reactions[type]
                     <=> u \in comments[Answer.id].reactions[type]]_vars

\* C38: a thread that reports the status set by updateCommentStatus goes on
\* reporting it, from getCommentThread and from getCommentThreads, through
\* every step that is not an update_comment_status and leaves it a comment
\* that is not deleted.
C38_ThreadStatusStable ==
    [][~Calls("update_comment_status") =>
         \A a \in AnnotationIds, status \in Statuses :
             (/\ getCommentThread(comments, a).status = status
              /\ getCommentThread(comments', a).comments # << >>) =>
                 /\ getCommentThread(comments', a).status = status
                 /\ \A itemId \in Items :
                       LET threads == getCommentThreads(comments', threadComments', itemId)
                       IN \A k \in DOMAIN threads :
                              threads[k].annotationId = a => threads[k].status = status]_vars

\* The comments stored under the thread.
InThread(key) == {i \in Ids : comments[i].threadType = key[1] /\ comments[i].threadId = key[2]}

\* C39: with offset 0 and a limit no smaller than the number of comments of
\* the thread, the tree returned by getCommentsForThread holds every comment
\* of the thread that is not deleted exactly once, and no deleted comment.
C39_CompleteListing ==
    \A key \in ThreadKeys, limit \in {l \in Limits : l >= Len(comments)} :
        LET tree == Listed(key, limit, 0)
        IN \A c \in InThread(key) :
              Occurrences(tree, c) = IF comments[c].isDeleted THEN 0 ELSE 1

\* C40: a successful addReaction(annotationId, c, t, u) changes, of the
\* reactions, content, status and isDeleted of the stored comments, only the
\* membership of u in the reactor sets of c: the membership of every other
\* actor on c, the reactions of every other comment, and content, status and
\* isDeleted of every comment are as before, and no comment is added.
C40_ReactionFrame ==
    [][(Calls("add_reaction") /\ Answer.res = "ok") =>
          LET c == Answer.id
          IN /\ DOMAIN comments' = DOMAIN comments
             /\ \A v \in Reactors \ {Reactor} : \A t2 \in ReactionTypes :
                   v \in comments'[c].reactions[t2] <=> v \in comments[c].reactions[t2]
             /\ \A i \in Ids \ {c} : comments'[i].reactions = comments[i].reactions
             /\ \A i \in Ids :
                   /\ comments'[i].content = comments[i].content
                   /\ comments'[i].status = comments[i].status
                   /\ comments'[i].isDeleted = comments[i].isDeleted]_vars

\* An actor toggled a reaction on a comment on which the other actor holds
\* one, while another comment carries reactions too.
C40_Witness ==
    \E c \in Ids : \E d \in Ids \ {c} : \E u \in Users : \E v \in Users \ {u} :
        /\ Reacted(c)
        /\ Held(c, u) # {}
        /\ Held(c, v) # {}
        /\ Held(d, v) # {}

====
